---- MODULE Spec2Model ----
(***************************************************************************)
(* State-machine model of the Field Elevate hub:                           *)
(*   - ContextManager   (mcp-hub/src/context-manager.ts)                   *)
(*   - AppRegistry / HealthMonitor (mcp-hub/src/app-registry.ts,           *)
(*     mcp-hub/src/context-manager.ts)                                     *)
(*   - MemoryManager    (ai-coo/src/core/reasoning-engine.ts)              *)
(*   - BaseAgent        (ai-coo/src/agents/base-agent.ts)                  *)
(*   - MasterCoordinator (.env.railway)                                    *)
(*   - CircuitBreaker   (shared/utils/error-handling.ts)                   *)
(* Every component has its own next-state relation and specification; the  *)
(* variables of the other components stay unchanged under it.              *)
(***************************************************************************)
EXTENDS Integers, Sequences, FiniteSets, TLC

VARIABLES
  \* ---- ContextManager over Redis
  kv,          \* Redis key space: context type -> stored ContextLayer or NoEntry
  history,     \* stream 'context:history': sequence of audit records
  published,   \* channel 'context:updated': sequence of published messages
  expired,     \* context types one of whose entries has expired (TTL)
  uc,          \* per caller: its updateContext call and how far it has got
  \* ---- MasterCoordinator.executeWorkflow (one workflow instance)
  workflow,    \* the workflow object: type, status, steps, results, error
  results,     \* executeDailyOperations' local results map (its keys)
  wfPc,        \* where executeWorkflow stands
  stepIdx,     \* index into the step list of the step being executed
  wfRaised,    \* the error executeWorkflow raised to its caller, or "none"
  invoked,     \* every agent.execute request issued, in order
  mcpCalls,    \* requests sent through mcpClient (callApp / streamData), in order
  \* ---- AppRegistry and HealthMonitor
  apps,        \* AppRegistry.apps: app id -> status, or "unregistered"
  appCalls,    \* stream 'app:calls': the call-audit entries
  appEvents,   \* messages published on 'app:registered' / 'app:status_change'
  healthLog,   \* stream 'health:checks'
  alerts,      \* stream 'alerts:system' and channel 'alert:status_change'
  hcQueue,     \* apps the running checkAllApps pass has still to check
  lastOp,      \* the latest registerApp, callApp or broadcastUpdate, or the
               \* latest health check of one app: its inputs and what came
               \* of it
  regOps,      \* number of registerApp / callApp / broadcastUpdate
               \* operations so far
  passes,      \* number of health-loop passes started so far
  \* ---- CircuitBreaker
  cbState,         \* 'closed' | 'open' | 'half-open'
  failures,        \* CircuitBreaker.failures
  lastFailureTime, \* time of the latest failure, or Undefined
  now,             \* Date.now()
  cbCall,          \* per caller: where its execute() call stands: idle,
                   \* running its operation, or running it as the trial
                   \* that took the breaker from open to half-open
  outcomes,        \* how the operations run through the breaker ended, in order
  cbStarted,       \* number of execute() and reset() calls so far
  \* ---- BaseAgent (one agent instance)
  agStatus,    \* state.status
  currentTask, \* state.currentTask: a task id, or "none"
  taskStatus,  \* task.status of every task handed to the agent
  pt,          \* per task: where the processTask call for it stands
  actOk,       \* per task: result.success of its action, once act has returned
  wmMessages,  \* messages receiveMessage has pushed to state.workingMemory
  isShutdown,  \* shutdown() has been called
  ptError,     \* task id -> the awaited call whose failure ended processTask
  \* ---- MemoryManager (one agent's memory, kept in two Redis hashes)
  memReady,    \* initialize() has connected the manager to Redis
  shortTerm,   \* the hash memory:<agent>:short, as a set of MemoryItems
  longTerm,    \* the hash memory:<agent>:long
  nextId,      \* the id the next MemoryItem gets
  stores,      \* number of store calls so far
  lastStore,   \* what the last store call was given and how it ended
  memCalls,    \* number of retrieveRelevant and consolidate calls so far
  memCall,     \* the last retrieveRelevant or consolidate call: what it was
               \* given, what it read, how it ended
  \* ---- GlobalErrorHandler
  ehRequests,  \* every request the handler sent through mcpClient, in order
  ehLast,      \* the last handle() call: the error, the handler chosen, the
               \* requests it sent, whether it raised
  ehHandled,   \* number of handle() calls so far
  \* ---- MasterCoordinator, emergency_response workflow
  emWorkflow,  \* the workflow object: severity parameter, status, error
  emPc,        \* where executeWorkflow('emergency_response') stands
  emTodo,      \* the calls executeEmergencyResponse has still to make
  emRequests,  \* every request sent to an app or an agent, in order
  \* ---- ReasoningEngine
  reLast,      \* the last evaluate() call: the strategies' decisions and the
               \* combined decision
  \* ---- BaseAgent.think
  thinkLast    \* the last task request that reached think: the priority and
               \* the confidence it came with and the item given to store

ctxVars == <<kv, history, published, expired, uc>>
wfVars == <<workflow, results, wfPc, stepIdx, wfRaised, invoked, mcpCalls>>
regVars == <<apps, appCalls, appEvents, healthLog, alerts, hcQueue,
             lastOp, regOps, passes>>

cbVars == <<cbState, failures, lastFailureTime, now, cbCall, outcomes, cbStarted>>

agVars == <<agStatus, currentTask, taskStatus, pt, actOk, wmMessages, isShutdown,
           ptError>>

memVars == <<memReady, shortTerm, longTerm, nextId, stores, lastStore,
            memCalls, memCall>>

ehVars == <<ehRequests, ehLast, ehHandled>>

emVars == <<emWorkflow, emPc, emTodo, emRequests>>

reVars == <<reLast>>
thVars == <<thinkLast>>

vars == <<ctxVars, wfVars, regVars, cbVars, agVars, memVars, ehVars, emVars, reVars, thVars>>

\* what the actions of one component leave alone
notCtx == <<wfVars, regVars, cbVars, agVars, memVars, ehVars, emVars, reVars, thVars>>
notWf == <<ctxVars, regVars, cbVars, agVars, memVars, ehVars, emVars, reVars, thVars>>
notReg == <<ctxVars, wfVars, cbVars, agVars, memVars, ehVars, emVars, reVars, thVars>>
notCb == <<ctxVars, wfVars, regVars, agVars, memVars, ehVars, emVars, reVars, thVars>>
notAg == <<ctxVars, wfVars, regVars, cbVars, memVars, ehVars, emVars, reVars, thVars>>
notMem == <<ctxVars, wfVars, regVars, cbVars, agVars, ehVars, emVars, reVars, thVars>>
notEh == <<ctxVars, wfVars, regVars, cbVars, agVars, memVars, emVars, reVars, thVars>>
notEm == <<ctxVars, wfVars, regVars, cbVars, agVars, memVars, ehVars, reVars, thVars>>
notRe == <<ctxVars, wfVars, regVars, cbVars, agVars, memVars, ehVars, emVars, thVars>>
notTh == <<ctxVars, wfVars, regVars, cbVars, agVars, memVars, ehVars, emVars, reVars>>

(***************************************************************************)
(* ContextManager                                                          *)
(***************************************************************************)
Callers == {"w1", "w2", "w3"}
Types == {"portfolio", "market"}
\* each caller writes a value of its own, so a stored value names its writer;
\* the third element is the type of the value's timestamp field: w1 passes a
\* Date object (as test/mcp-hub.test.ts:24-28 does), the others a string
DataOf(c) == <<"data", c, IF c = "w1" THEN "Date" ELSE "string">>

\* redis-manager.ts line 69: JSON.stringify(value); a Date is written as its
\* ISO string
stringify(data) ==
  <<"json">> \o [i \in 1..Len(data) |-> IF data[i] = "Date" THEN "string" ELSE data[i]]

\* redis-manager.ts line 65: JSON.parse(value)
parse(serialized) == Tail(serialized)

NoEntry == [version |-> 0, data |-> <<>>, ttl |-> FALSE]
IdleCall == [pc |-> "idle", type |-> "none", data |-> <<>>, ttl |-> FALSE,
             version |-> 0]

\* line 23: const version = current ? current.version + 1 : 1
NextVersion(current) == IF current # NoEntry THEN current.version + 1 ELSE 1

\* line 55-58: getContext returns the stored layer, parsed, or null
getContext(type) ==
  IF kv[type] = NoEntry THEN NoEntry
  ELSE [kv[type] EXCEPT !.data = parse(@)]

\* lines 38-43: the record added to the stream 'context:history'
AuditRecord_noVersion(call) == [type |-> call.type, version |-> 0]
AuditRecord(call) == [type |-> call.type, version |-> call.version]

\* lines 46-50: the message and the channel it is published on
Notification(call) ==
  [channel |-> "context:updated", type |-> call.type, version |-> call.version]

InitCtx ==
  /\ kv = [t \in Types |-> NoEntry]
  /\ history = <<>>
  /\ published = <<>>
  /\ expired = {}
  /\ uc = [c \in Callers |-> IdleCall]

\* lines 18-23: the call starts and awaits redis.get; the version is computed
\* from what the read returned.  A Redis fault makes the call raise.
UpdateContext_get(c) ==
  /\ uc[c].pc = "idle"
  /\ \E type \in Types, ttl \in BOOLEAN, ok \in BOOLEAN :
       uc' = [uc EXCEPT ![c] =
                IF ok
                THEN [pc |-> "got", type |-> type, data |-> DataOf(c), ttl |-> ttl,
                      version |-> NextVersion(kv[type])]
                ELSE [pc |-> "raised", type |-> type, data |-> DataOf(c), ttl |-> ttl,
                      version |-> 0]]
  /\ UNCHANGED <<kv, history, published, expired>>
  /\ UNCHANGED notCtx

\* lines 25-35: await redis.set(contextKey, context, ttl)
UpdateContext_set(c) ==
  /\ uc[c].pc = "got"
  /\ \E ok \in BOOLEAN :
       IF ok
       THEN /\ kv' = [kv EXCEPT ![uc[c].type] =
                        [version |-> uc[c].version,
                         data |-> stringify(uc[c].data),
                         ttl |-> uc[c].ttl]]
            /\ uc' = [uc EXCEPT ![c].pc = "stored"]
       ELSE /\ uc' = [uc EXCEPT ![c].pc = "raised"]
            /\ UNCHANGED kv
  /\ UNCHANGED <<history, published, expired>>
  /\ UNCHANGED notCtx

\* lines 37-43: await redis.addToStream('context:history', ...)
UpdateContext_addToStream(c) ==
  /\ uc[c].pc = "stored"
  /\ \E ok \in BOOLEAN :
       IF ok
       THEN /\ history' = Append(history, AuditRecord(uc[c]))
            /\ uc' = [uc EXCEPT ![c].pc = "logged"]
       ELSE /\ uc' = [uc EXCEPT ![c].pc = "raised"]
            /\ UNCHANGED history
  /\ UNCHANGED <<kv, published, expired>>
  /\ UNCHANGED notCtx

\* lines 45-53: await redis.publish('context:updated', ...); the call returns
UpdateContext_publish(c) ==
  /\ uc[c].pc = "logged"
  /\ \E ok \in BOOLEAN :
       IF ok
       THEN /\ published' = Append(published, Notification(uc[c]))
            /\ uc' = [uc EXCEPT ![c].pc = "returned"]
       ELSE /\ uc' = [uc EXCEPT ![c].pc = "raised"]
            /\ UNCHANGED published
  /\ UNCHANGED <<kv, history, expired>>
  /\ UNCHANGED notCtx

\* redis-manager.ts lines 70-71: setEx gives the key a time to live; Redis
\* drops the key when it runs out.
ExpireKey(type) ==
  /\ kv[type] # NoEntry
  /\ kv[type].ttl
  /\ kv' = [kv EXCEPT ![type] = NoEntry]
  /\ expired' = expired \cup {type}
  /\ UNCHANGED <<history, published, uc>>
  /\ UNCHANGED notCtx

NextCtx ==
  \/ \E c \in Callers : UpdateContext_get(c)
  \/ \E c \in Callers : UpdateContext_set(c)
  \/ \E c \in Callers : UpdateContext_addToStream(c)
  \/ \E c \in Callers : UpdateContext_publish(c)
  \/ \E t \in Types : ExpireKey(t)

\* no updateContext call is between its start and its end
NoCallInFlight == \A c \in Callers : uc[c].pc \in {"idle", "returned", "raised"}

\* one writer at a time: a call starts only when no other call is under way
UpdateContext_get_alone(c) == NoCallInFlight /\ UpdateContext_get(c)

NextCtxSeq ==
  \/ \E c \in Callers : UpdateContext_get_alone(c)
  \/ \E c \in Callers : UpdateContext_set(c)
  \/ \E c \in Callers : UpdateContext_addToStream(c)
  \/ \E c \in Callers : UpdateContext_publish(c)
  \/ \E t \in Types : ExpireKey(t)

\* the calls whose redis.set has been executed
HasWritten(c) == uc[c].pc \in {"stored", "logged", "returned"}

\* the versions the audit records of one context type carry, in log order
RECURSIVE VersionsOf(_, _)
VersionsOf(log, type) ==
  IF log = <<>> THEN <<>>
  ELSE IF Head(log).type = type
       THEN <<Head(log).version>> \o VersionsOf(Tail(log), type)
       ELSE VersionsOf(Tail(log), type)

StrictlyIncreasing(s) == \A i \in 1..(Len(s) - 1) : s[i] < s[i + 1]

\* C1: for any number of callers running updateContext concurrently on the
\* same key, no two puts are assigned the same version, and the versions in
\* the history log of that key are strictly increasing with no repeats
\* (keys one of whose entries expired are left aside).
C1_DistinctVersionsPerKey ==
  \A t \in Types \ expired :
    /\ \A c1, c2 \in Callers :
         (c1 # c2 /\ HasWritten(c1) /\ HasWritten(c2)
            /\ uc[c1].type = t /\ uc[c2].type = t)
         => uc[c1].version # uc[c2].version
    /\ StrictlyIncreasing(VersionsOf(history, t))

\* the step takes caller c's call from one await point to the next
Moves(c, from, to) == uc[c].pc = from /\ uc'[c].pc = to

\* C18 (as the code has it): every updateContext that completes has
\* appended exactly one audit record carrying its key and the version it
\* wrote to the history log, and has published exactly one notification
\* carrying that key and version, on the one channel 'context:updated';
\* nothing else appends to the log or publishes.
C18_OneRecordOneNotification ==
  [][/\ \A c \in Callers :
          /\ Moves(c, "stored", "logged")
             => /\ history' = Append(history, [type |-> uc[c].type,
                                                version |-> uc[c].version])
                /\ published' = published
          /\ Moves(c, "logged", "returned")
             => /\ published' = Append(published,
                                        [channel |-> "context:updated",
                                         type |-> uc[c].type,
                                         version |-> uc[c].version])
                /\ history' = history
          /\ uc'[c].pc = "returned" => uc[c].pc \in {"logged", "returned"}
          /\ uc'[c].pc = "logged" => uc[c].pc \in {"stored", "logged"}
     /\ history' # history => \E c \in Callers : Moves(c, "stored", "logged")
     /\ published' # published => \E c \in Callers : Moves(c, "logged", "returned")
    ]_vars

\* two calls on different keys have completed, each with its record and its
\* notification
C18_Witness ==
  \E c1, c2 \in Callers :
    /\ uc[c1].pc = "returned" /\ uc[c2].pc = "returned"
    /\ uc[c1].type # uc[c2].type
    /\ \A c \in {c1, c2} :
         /\ \E i \in DOMAIN history :
              history[i] = [type |-> uc[c].type, version |-> uc[c].version]
         /\ \E i \in DOMAIN published :
              /\ published[i].type = uc[c].type
              /\ published[i].version = uc[c].version

\* C18: every updateContext that completes appends exactly one audit record
\* and publishes exactly one notification carrying the key and the written
\* version, on a topic derived from the key: notifications for different
\* keys go to different topics.
C18_NotificationOnKeyTopic ==
  \A i, j \in DOMAIN published :
    published[i].type # published[j].type
    => published[i].channel # published[j].channel

\* C11: with one writer at a time, an updateContext on a key without a stored
\* entry stores version 1, an updateContext on a key with a stored entry
\* stores that entry's version plus 1, and getContext then returns exactly
\* the data and the version that updateContext was given and wrote.
C11_SequentialVersionsAndReadBack ==
  [][\A c \in Callers :
       /\ (uc[c].pc = "idle" /\ uc'[c].pc = "got")
          => uc'[c].version =
               (IF getContext(uc'[c].type) = NoEntry
                THEN 1 ELSE getContext(uc'[c].type).version + 1)
       /\ (uc[c].pc = "got" /\ uc'[c].pc = "stored")
          => /\ getContext(uc[c].type)'.version = uc[c].version
             /\ getContext(uc[c].type)'.data = uc[c].data]_vars

NeverAfterHigher(s) == \A i, j \in DOMAIN s : i < j => s[i] <= s[j]

\* C26: the notifications of puts on one key are published in the order of
\* their versions: for concurrent updateContext calls on a key, a
\* notification is never published after one that carries a higher version
\* of that key (keys one of whose entries expired are left aside).
C26_NotificationsInVersionOrder ==
  \A type \in Types \ expired : NeverAfterHigher(VersionsOf(published, type))

\* C27: the version of a key never decreases over its whole history, also
\* when its entry expires between writes: every updateContext writes a
\* version greater than every version written for that key before.
C27_VersionGrowsAcrossExpiry ==
  [][\A c \in Callers :
       Moves(c, "got", "stored")
       => \A i \in DOMAIN history :
            history[i].type = uc[c].type => history[i].version < uc[c].version]_vars


\* the call of caller c has ended, by returning or by raising
Ended(c) == uc[c].pc \in {"returned", "raised"}

\* the entry getContext returns for the key of c's call is the one c's call
\* wrote: the stored data names its writer
WroteVisible(c) ==
  /\ uc[c].type \in Types
  /\ kv[uc[c].type] # NoEntry
  /\ getContext(uc[c].type).version = uc[c].version
  /\ getContext(uc[c].type).data = parse(stringify(uc[c].data))

\* C35: whenever a version of a key is visible through getContext and the
\* updateContext call that wrote it has ended (returned or raised), the
\* history log contains an audit record with that key and version: a failure
\* of the log append or of the publish never leaves a visible version
\* without its audit record.
C35_VisibleVersionHasAuditRecord ==
  \A c \in Callers :
    (Ended(c) /\ WroteVisible(c))
    => \E i \in DOMAIN history : history[i] = AuditRecord(uc[c])

(***************************************************************************)
(* MasterCoordinator: executeWorkflow('daily_operations')                  *)
(***************************************************************************)
\* lines 139-147: the step list of executeDailyOperations
DailySteps ==
  << [name |-> "market_analysis",    agent |-> "market_analyst"],
     [name |-> "portfolio_review",   agent |-> "performance_analyst"],
     [name |-> "risk_check",         agent |-> "risk_monitor"],
     [name |-> "strategy_ranking",   agent |-> "strategy_ranker"],
     [name |-> "compliance_check",   agent |-> "compliance"],
     [name |-> "execution_planning", agent |-> "execution"],
     [name |-> "report_generation",  agent |-> "reporting"] >>

StepNames == {DailySteps[i].name : i \in DOMAIN DailySteps}

\* position of a step name in the step list
StepPos(name) == CHOOSE i \in DOMAIN DailySteps : DailySteps[i].name = name

\* lines 631-634
isCriticalStep(stepName) ==
  stepName \in {"risk_check", "compliance_check", "execution_planning"}

\* lines 832-833: the steps completeCriticalStepsManually goes through
ManualSteps == <<"risk_check", "compliance_check">>

\* lines 852-860
getAgentForStep(stepName) ==
  CASE stepName = "risk_check" -> "risk_monitor"
    [] stepName = "compliance_check" -> "compliance"
    [] stepName = "market_analysis" -> "market_analyst"
    [] OTHER -> "reporting"

\* outcomes of agent.execute: a result, a result with halt_workflow, an error
ExecOutcomes == {"ok", "halt", "fail"}

NoWorkflow == [type |-> "none", status |-> "none", steps |-> <<>>,
               results |-> {}, error |-> "none"]

InitWf ==
  /\ workflow = NoWorkflow
  /\ results = {}
  /\ wfPc = "idle"
  /\ stepIdx = 0
  /\ wfRaised = "none"
  /\ invoked = <<>>
  /\ mcpCalls = <<>>

\* lines 67-87: the workflow object is created and the daily operations start
ExecuteWorkflow_start ==
  /\ wfPc = "idle"
  /\ workflow' = [type |-> "daily_operations", status |-> "running",
                  steps |-> <<>>, results |-> {}, error |-> "none"]
  /\ results' = {}
  /\ stepIdx' = 1
  /\ wfPc' = "loop"
  /\ UNCHANGED <<wfRaised, invoked, mcpCalls>>
  /\ UNCHANGED notWf

\* lines 151-168: a StepRecord(running) is pushed and the agent is asked to
\* execute the step
DailyOperations_invoke ==
  /\ wfPc = "loop"
  /\ stepIdx \in DOMAIN DailySteps
  /\ workflow' = [workflow EXCEPT !.steps =
                    Append(@, [name |-> DailySteps[stepIdx].name,
                               status |-> "running", halt |-> FALSE])]
  /\ invoked' = Append(invoked, [agent |-> DailySteps[stepIdx].agent,
                                 action |-> DailySteps[stepIdx].name,
                                 previous_results |-> results,
                                 manual |-> FALSE])
  /\ wfPc' = "awaiting"
  /\ UNCHANGED <<results, stepIdx, wfRaised, mcpCalls>>
  /\ UNCHANGED notWf

\* variant: the step record keeps the status it was pushed with
MarkCurrentStep_keepsRunning(steps, status, halt) == steps

\* the step record at the end of workflow.steps, with a new status
MarkCurrentStep(steps, status, halt) ==
  [steps EXCEPT ![Len(steps)] = [@ EXCEPT !.status = status, !.halt = halt]]

\* where the loop goes when the step's agent answered `outcome`
AfterStep(name, outcome, idx) ==
  CASE outcome = "halt" -> "store"
    [] outcome = "fail" /\ isCriticalStep(name) -> "catch"
    [] OTHER -> IF idx = Len(DailySteps) THEN "store" ELSE "loop"

\* lines 170-193: the agent's answer arrives
DailyOperations_result ==
  /\ wfPc = "awaiting"
  /\ \E outcome \in ExecOutcomes :
       LET name == DailySteps[stepIdx].name IN
       /\ results' = IF outcome = "fail" THEN results ELSE results \cup {name}
       /\ workflow' =
            [workflow EXCEPT
               !.steps = MarkCurrentStep(@,
                           IF outcome = "fail" THEN "failed" ELSE "completed",
                           outcome = "halt"),
               \* lines 124-125 (catch of executeWorkflow)
               !.status = IF AfterStep(name, outcome, stepIdx) = "catch"
                          THEN "failed" ELSE @,
               !.error = IF AfterStep(name, outcome, stepIdx) = "catch"
                         THEN name ELSE @]
       /\ wfPc' = AfterStep(name, outcome, stepIdx)
       /\ stepIdx' = IF AfterStep(name, outcome, stepIdx) = "loop"
                     THEN stepIdx + 1 ELSE stepIdx
  /\ UNCHANGED <<wfRaised, invoked, mcpCalls>>
  /\ UNCHANGED notWf

\* lines 114-121 and 694-702: status completed, results assigned, then
\* await storeWorkflowResults, which sends {workflow_id, type, status,
\* results, duration} to data-hub; its failure lands in the catch block
\* (lines 123-126)
StoreWorkflowResults ==
  /\ wfPc = "store"
  /\ \E ok \in BOOLEAN :
       /\ mcpCalls' = Append(mcpCalls,
                        [op |-> "store_workflow", type |-> workflow.type,
                         status |-> "completed", results |-> results,
                         ok |-> ok])
       /\ IF ok
          THEN /\ workflow' = [workflow EXCEPT !.status = "completed",
                                               !.results = results]
               /\ wfPc' = "returned"
          ELSE /\ workflow' = [workflow EXCEPT !.status = "failed",
                                               !.results = results,
                                               !.error = "store_workflow"]
               /\ wfPc' = "catch"
  /\ UNCHANGED <<results, stepIdx, wfRaised, invoked>>
  /\ UNCHANGED notWf

\* has the workflow a completed StepRecord for the step?  (line 836-837)
StepCompleted(steps, stepName) ==
  \E i \in DOMAIN steps : steps[i].name = stepName /\ steps[i].status = "completed"

\* lines 832-850: the agent.execute requests of completeCriticalStepsManually
RECURSIVE ManualRequests(_, _)
ManualRequests(steps, names) ==
  IF names = <<>> THEN <<>>
  ELSE (IF StepCompleted(steps, Head(names)) THEN <<>>
        ELSE << [agent |-> getAgentForStep(Head(names)),
                 action |-> Head(names), previous_results |-> {},
                 manual |-> TRUE] >>)
       \o ManualRequests(steps, Tail(names))

\* lines 128-135 and 704-726: handleWorkflowFailure, then the error is raised.
\* A failing streamData or notifyOperationsTeam raises from the handler.
HandleWorkflowFailure ==
  /\ wfPc = "catch"
  /\ \E logOk \in BOOLEAN, notifyOk \in BOOLEAN :
       IF ~logOk
       THEN /\ mcpCalls' = Append(mcpCalls, [op |-> "workflow:failed", ok |-> FALSE])
            /\ wfRaised' = "streamData"
            /\ UNCHANGED invoked
       ELSE /\ mcpCalls' = mcpCalls \o
                 << [op |-> "workflow:failed", ok |-> TRUE],
                    [op |-> "create_alert", ok |-> notifyOk] >>
            /\ invoked' = invoked \o
                 (IF workflow.type = "daily_operations"
                  THEN ManualRequests(workflow.steps, ManualSteps) ELSE <<>>)
            /\ wfRaised' = IF notifyOk THEN workflow.error ELSE "create_alert"
  /\ wfPc' = "raised"
  /\ UNCHANGED <<workflow, results, stepIdx>>
  /\ UNCHANGED notWf

NextWf ==
  \/ ExecuteWorkflow_start
  \/ DailyOperations_invoke
  \/ DailyOperations_result
  \/ StoreWorkflowResults
  \/ HandleWorkflowFailure

(***************************************************************************)
(* AppRegistry and HealthMonitor                                           *)
(***************************************************************************)
\* bound on the registerApp / callApp operations and health-loop passes
MaxRegOps == 3

\* 'data-hub' is one of the default apps (lines 37-46); callers may register
\* it again with another status
AppIds == {"data-hub"}
DefaultApps == {"data-hub"}
\* lines 11: RegisteredApp.status
Statuses == {"online", "offline", "degraded"}
\* what an axios.post to the app ends with: a response, or an error whose
\* code is ECONNREFUSED, ETIMEDOUT or something else (HTTP 500, ...)
NetOutcomes == {"ok", "ECONNREFUSED", "ETIMEDOUT", "EOTHER"}
\* the Redis command of a call that fails, if any
CallFaults == {"none", "audit", "audit_twice", "save", "publish"}

\* the Redis command of a health check (after its callApp) that fails, if any
CheckFaults == {"none", "status_save", "status_publish", "healthlog",
                "alertlog", "alertpub"}
\* one Redis command of a health check fails, in its callApp or after it
HealthFaults == CallFaults \cup CheckFaults
\* the fault as the status update of the health check sees it
AsStatusFault(post) ==
  CASE post = "status_save" -> "save"
    [] post = "status_publish" -> "publish"
    [] OTHER -> "none"

NoOp == [kind |-> "none"]

InitReg ==
  /\ apps = [a \in AppIds |-> "unregistered"]
  /\ appCalls = <<>>
  /\ appEvents = <<>>
  /\ healthLog = <<>>
  /\ alerts = <<>>
  /\ hcQueue = <<>>
  /\ lastOp = NoOp
  /\ regOps = 0
  /\ passes = 0

\* lines 181-196: updateAppStatus.  The status is assigned first; a Redis
\* fault in saveRegistry or publish raises after that.
\* Result: the status, the events published, and whether it raised.
updateAppStatus(status, appId, newStatus, events, fault) ==
  IF status = "unregistered"
  THEN [status |-> status, events |-> events, raised |-> FALSE]
  ELSE [status |-> newStatus,
        events |-> IF fault \in {"save", "publish"} THEN events
                   ELSE Append(events, [channel |-> "app:status_change",
                                        appId |-> appId, status |-> newStatus]),
        raised |-> fault \in {"save", "publish"}]

\* lines 111-164: callApp on an app whose status is `status`, when the HTTP
\* request ends with `net` and the Redis command named by `fault` fails.
\* Result: what the caller gets, the app's status, the audit stream and the
\* published events after the call, and whether the HTTP request was sent.
callApp(status, appId, method, net, fault, calls, events) ==
  LET entry(st) == [appId |-> appId, method |-> method, status |-> st] IN
  CASE status = "unregistered" ->
         [outcome |-> "not_found", status |-> status, calls |-> calls,
          events |-> events, sent |-> FALSE]
    [] status = "offline" ->
         [outcome |-> "app_offline", status |-> status, calls |-> calls,
          events |-> events, sent |-> FALSE]
    [] status \notin {"unregistered", "offline"} /\ net = "ok" ->
         \* lines 135-144; a failing append lands in the catch block, whose
         \* own append (lines 149-155) succeeds or fails too
         IF fault = "audit"
         THEN [outcome |-> "redis_error", status |-> status,
               calls |-> Append(calls, entry("failed")), events |-> events,
               sent |-> TRUE]
         ELSE IF fault = "audit_twice"
         THEN [outcome |-> "redis_error", status |-> status, calls |-> calls,
               events |-> events, sent |-> TRUE]
         ELSE [outcome |-> "ok", status |-> status,
               calls |-> Append(calls, entry("success")), events |-> events,
               sent |-> TRUE]
    [] OTHER ->
         \* lines 145-163
         IF fault \in {"audit", "audit_twice"}
         THEN [outcome |-> "redis_error", status |-> status, calls |-> calls,
               events |-> events, sent |-> TRUE]
         ELSE IF net \in {"ECONNREFUSED", "ETIMEDOUT"}
         THEN LET u == updateAppStatus(status, appId, "offline", events, fault) IN
              [outcome |-> IF u.raised THEN "redis_error" ELSE net,
               status |-> u.status,
               calls |-> Append(calls, entry("failed")), events |-> u.events,
               sent |-> TRUE]
         ELSE [outcome |-> net, status |-> status,
               calls |-> Append(calls, entry("failed")), events |-> events,
               sent |-> TRUE]

\* lines 21-33, 35-96: the default apps are registered offline unless known
LoadRegisteredApps ==
  /\ \E a \in DefaultApps : apps[a] = "unregistered"
  /\ apps' = [a \in AppIds |->
                IF a \in DefaultApps /\ apps[a] = "unregistered"
                THEN "offline" ELSE apps[a]]
  /\ UNCHANGED <<appCalls, appEvents, healthLog, alerts, hcQueue, lastOp,
                 regOps, passes>>
  /\ UNCHANGED notReg

\* lines 98-109: registerApp(app); the map entry is set before Redis is used
RegisterApp(a, status) ==
  /\ regOps + passes < MaxRegOps
  /\ apps' = [apps EXCEPT ![a] = status]
  /\ \E fault \in {"none", "save", "publish"} :
       appEvents' = IF fault = "none"
                    THEN Append(appEvents, [channel |-> "app:registered",
                                            appId |-> a, status |-> status])
                    ELSE appEvents
  /\ lastOp' = [kind |-> "registerApp", app |-> a, before |-> apps[a],
                after |-> status]
  /\ regOps' = regOps + 1
  /\ UNCHANGED <<appCalls, healthLog, alerts, hcQueue, passes>>
  /\ UNCHANGED notReg

\* a caller invokes callApp(appId, method, params); `net` is how the remote
\* service answers the HTTP request, if one is sent
CallApp(a, net) ==
  /\ regOps + passes < MaxRegOps
  /\ \E fault \in CallFaults :
       LET r == callApp(apps[a], a, "op", net, fault, appCalls, appEvents) IN
       /\ apps' = [apps EXCEPT ![a] = r.status]
       /\ appCalls' = r.calls
       /\ appEvents' = r.events
       /\ lastOp' = [kind |-> "callApp", app |-> a, before |-> apps[a],
                     net |-> IF r.sent THEN net ELSE "none",
                     fault |-> fault, outcome |-> r.outcome,
                     after |-> r.status,
                     published |-> Len(r.events) > Len(appEvents)]
  /\ regOps' = regOps + 1
  /\ UNCHANGED <<healthLog, alerts, hcQueue, passes>>
  /\ UNCHANGED notReg

\* the registered apps, in the order checkAllApps goes through them
AppOrder == <<"data-hub">>

\* lines 166-179: broadcastUpdate calls receive_update on every app that is
\* online and swallows what the calls raise
RECURSIVE broadcastUpdate(_, _, _, _, _, _)
broadcastUpdate(order, status, calls, events, net, fault) ==
  IF order = <<>>
  THEN [status |-> status, calls |-> calls, events |-> events]
  ELSE LET a == Head(order)
           r == IF status[a] = "online"
                THEN callApp(status[a], a, "receive_update", net, fault,
                             calls, events)
                ELSE [status |-> status[a], calls |-> calls, events |-> events]
       IN  broadcastUpdate(Tail(order), [status EXCEPT ![a] = r.status],
                           r.calls, r.events, net, fault)

\* server.ts line 227: the hub broadcasts a context update; `net` is how the
\* apps answer
BroadcastUpdate(net) ==
  /\ regOps + passes < MaxRegOps
  /\ \E fault \in CallFaults :
       LET r == broadcastUpdate(AppOrder, apps, appCalls, appEvents, net, fault) IN
       /\ apps' = r.status
       /\ appCalls' = r.calls
       /\ appEvents' = r.events
       /\ lastOp' = [kind |-> "broadcast", before |-> apps, net |-> net,
                     fault |-> fault, after |-> r.status]
  /\ regOps' = regOps + 1
  /\ UNCHANGED <<healthLog, alerts, hcQueue, passes>>
  /\ UNCHANGED notReg
IsRegistered(a) == apps[a] # "unregistered"
getAllApps == SelectSeq(AppOrder, IsRegistered)

\* context-manager.ts lines 262-265: a pass of the health loop starts with
\* the apps registered at that moment
CheckAllApps_start ==
  /\ regOps + passes < MaxRegOps
  /\ hcQueue = <<>>
  /\ getAllApps # <<>>
  /\ hcQueue' = getAllApps
  /\ passes' = passes + 1
  /\ UNCHANGED <<apps, appCalls, appEvents, healthLog, alerts, lastOp, regOps>>
  /\ UNCHANGED notReg

\* context-manager.ts lines 309-325: checkAppHealth.  previousStatus is read
\* after callApp has ended.
checkAppHealth(r) ==
  [status |-> IF r.outcome = "ok" THEN "online" ELSE "offline",
   previousStatus |-> r.status]

\* context-manager.ts lines 344-359: alertStatusChange appends to
\* 'alerts:system', then publishes on 'alert:status_change'
alertStatusChange(log, appId, oldStatus, newStatus, fault) ==
  LET alert(kind) == [kind |-> kind, appId |-> appId, old |-> oldStatus,
                      new |-> newStatus] IN
  IF fault = "alertlog" THEN log
  ELSE IF fault = "alertpub" THEN Append(log, alert("stream"))
  ELSE log \o <<alert("stream"), alert("publish")>>

\* context-manager.ts lines 265-306: the loop body for the next app of the
\* pass; whatever is raised inside is caught and logged (lines 299-305).
\* `net` is how the app's endpoint answers a health request at that moment.
CheckAllApps_app(net) ==
  /\ hcQueue # <<>>
  /\ \E f \in HealthFaults :
       LET a == Head(hcQueue)
           fault == IF f \in CallFaults THEN f ELSE "none"
           post == IF f \in CheckFaults THEN f ELSE "none"
           r == callApp(apps[a], a, "health", net, fault, appCalls, appEvents)
           health == checkAppHealth(r)
           u == updateAppStatus(r.status, a, health.status, r.events,
                                AsStatusFault(post))
           logged == ~u.raised /\ post # "healthlog"
           changed == health.previousStatus # health.status
       IN
       /\ apps' = [apps EXCEPT ![a] = u.status]
       /\ appCalls' = r.calls
       /\ appEvents' = u.events
       /\ healthLog' = IF logged
                       THEN Append(healthLog, [appId |-> a, status |-> health.status])
                       ELSE healthLog
       /\ alerts' = IF logged /\ changed
                    THEN alertStatusChange(alerts, a, health.previousStatus,
                                           health.status, post)
                    ELSE alerts
       /\ lastOp' = [kind |-> "healthCheck", app |-> a, before |-> apps[a],
                     endpoint |-> net, status |-> health.status,
                     previousStatus |-> health.previousStatus,
                     after |-> u.status, fault |-> f,
                     alerted |-> logged /\ changed /\ post = "none"]
  /\ hcQueue' = Tail(hcQueue)
  /\ UNCHANGED <<regOps, passes>>
  /\ UNCHANGED notReg

NextReg ==
  \/ LoadRegisteredApps
  \/ \E a \in AppIds, st \in Statuses : RegisterApp(a, st)
  \/ \E a \in AppIds, net \in NetOutcomes : CallApp(a, net)
  \/ \E net \in NetOutcomes : BroadcastUpdate(net)
  \/ CheckAllApps_start
  \/ \E net \in NetOutcomes : CheckAllApps_app(net)

\* C3: a registered service whose status is offline and whose endpoint
\* answers the health operation successfully is set back to online by the
\* pass of the health loop that checks it.
C3_HealthLoopRestoresOnline ==
  (lastOp.kind = "healthCheck" /\ lastOp.before = "offline"
     /\ lastOp.endpoint = "ok")
  => lastOp.after = "online"

\* C7: when callApp on an online service fails with ECONNREFUSED or
\* ETIMEDOUT, the service is offline and a status-change event has been
\* published when the error reaches the caller; when it fails with another
\* error, the caller gets an error and the status is unchanged.  (The Redis
\* commands that save the registry and publish the event are taken to work.)
C7_CallFailureClassified ==
  (lastOp.kind = "callApp" /\ lastOp.before = "online"
     /\ lastOp.fault \notin {"save", "publish"})
  => /\ lastOp.net \in {"ECONNREFUSED", "ETIMEDOUT"}
        => (lastOp.outcome # "ok" /\ lastOp.after = "offline"
            /\ lastOp.published)
     /\ lastOp.net = "EOTHER"
        => (lastOp.outcome # "ok" /\ lastOp.after = "online")

\* C17: a registered service goes from offline to online only by a health
\* check of the health loop that found its endpoint healthy: registerApp
\* (also of an id that is registered already), callApp and broadcastUpdate
\* never move an offline service to online.
C17_OnlyHealthLoopRestoresOnline ==
  [][\A a \in AppIds :
       (apps[a] = "offline" /\ apps'[a] = "online")
       => /\ hcQueue # <<>>
          /\ Head(hcQueue) = a
          /\ hcQueue' = Tail(hcQueue)
          /\ lastOp'.kind = "healthCheck"
          /\ lastOp'.endpoint = "ok"]_vars

\* the step is a callApp by a caller
IsCallApp == lastOp'.kind = "callApp" /\ regOps' = regOps + 1

\* C19: every callApp appends exactly one entry naming the service, the
\* operation and the outcome to the stream 'app:calls', whatever the outcome
\* of the call: success, remote failure, unknown target, offline target
\* (calls during which a Redis command fails are left aside).
C19_EveryCallAudited ==
  [][(IsCallApp /\ lastOp'.fault = "none")
     => /\ Len(appCalls') = Len(appCalls) + 1
        /\ appCalls'[Len(appCalls')] =
             [appId |-> lastOp'.app, method |-> "op",
              status |-> IF lastOp'.outcome = "ok" THEN "success" ELSE "failed"]
    ]_vars

\* C20: the outcome of callApp does not depend on the audit append: when the
\* remote call succeeded, callApp returns the remote result, also when the
\* append to 'app:calls' fails.
C20_AuditAppendFireAndForget ==
  (lastOp.kind = "callApp" /\ lastOp.net = "ok") => lastOp.outcome = "ok"

\* C25: whenever a health-loop pass finds a service in a status different
\* from the one it had before the check, an alert record is appended to the
\* alert log and a status-change alert is published, whatever made the
\* health call fail (connection refused and timeout included).  Passes in
\* which a Redis command of the check itself fails are left aside.
C25_StatusChangeAlerted ==
  (/\ lastOp.kind = "healthCheck"
   /\ lastOp.fault = "none"
   /\ lastOp.before \in {"online", "offline"}
   /\ lastOp.status # lastOp.before)
  => /\ lastOp.alerted
     /\ Len(alerts) >= 2
     /\ alerts[Len(alerts)].kind = "publish"
     /\ alerts[Len(alerts)].appId = lastOp.app
     /\ alerts[Len(alerts) - 1].kind = "stream"

(***************************************************************************)
(* CircuitBreaker (shared/utils/error-handling.ts)                         *)
(***************************************************************************)
\* line 266: threshold = 5;  line 267: timeout = 60000 ms
threshold == 5
timeout == 60000
\* the clock advances in steps of TickMs
TickMs == 30000
MaxCbCalls == 7
CbCallers == {"a", "b"}
Undefined == -1

InitCb ==
  /\ cbState = "closed"
  /\ failures = 0
  /\ lastFailureTime = Undefined
  /\ now = 0
  /\ cbCall = [c \in CbCallers |-> "idle"]
  /\ outcomes = <<>>
  /\ cbStarted = 0

\* lines 270-277: the state the call goes on with, or "rejected"
Admit(state, last, t) ==
  IF state = "open"
  THEN IF t - last > timeout THEN "half-open" ELSE "rejected"
  ELSE state

\* lines 270-280: execute() is called; the call is rejected, or the operation
\* is started
Execute_begin(c) ==
  /\ cbCall[c] = "idle"
  /\ cbStarted < MaxCbCalls
  /\ cbStarted' = cbStarted + 1
  /\ IF Admit(cbState, lastFailureTime, now) = "rejected"
     THEN /\ cbCall' = [cbCall EXCEPT ![c] = "idle"]
          /\ UNCHANGED cbState
     ELSE /\ cbCall' = [cbCall EXCEPT ![c] =
                         IF cbState = "open" THEN "trial" ELSE "running"]
          /\ cbState' = Admit(cbState, lastFailureTime, now)
  /\ UNCHANGED <<failures, lastFailureTime, now, outcomes>>
  /\ UNCHANGED notCb

\* lines 282-285: what a successful operation does to (state, failures)
OnSuccess(state, n) ==
  IF state = "half-open" THEN [state |-> "closed", failures |-> 0]
  ELSE [state |-> state, failures |-> n]

\* lines 290-295: what a failed operation does to (state, failures)
OnFailure(state, n) ==
  [state |-> IF n + 1 >= threshold THEN "open" ELSE state, failures |-> n + 1]

\* lines 280-287: the operation returns its result
Execute_success(c) ==
  /\ cbCall[c] \in {"running", "trial"}
  /\ cbState' = OnSuccess(cbState, failures).state
  /\ failures' = OnSuccess(cbState, failures).failures
  /\ outcomes' = Append(outcomes, "ok")
  /\ cbCall' = [cbCall EXCEPT ![c] = "idle"]
  /\ UNCHANGED <<lastFailureTime, now, cbStarted>>
  /\ UNCHANGED notCb

\* lines 289-298: the operation raises
Execute_failure(c) ==
  /\ cbCall[c] \in {"running", "trial"}
  /\ cbState' = OnFailure(cbState, failures).state
  /\ failures' = OnFailure(cbState, failures).failures
  /\ lastFailureTime' = now
  /\ outcomes' = Append(outcomes, "fail")
  /\ cbCall' = [cbCall EXCEPT ![c] = "idle"]
  /\ UNCHANGED <<now, cbStarted>>
  /\ UNCHANGED notCb

\* time passes (it matters only while the breaker is open and cooling down)
Tick ==
  /\ cbState = "open"
  /\ now - lastFailureTime <= timeout
  /\ now' = now + TickMs
  /\ UNCHANGED <<cbState, failures, lastFailureTime, cbCall, outcomes, cbStarted>>
  /\ UNCHANGED notCb

\* lines 301-305
Reset ==
  /\ cbStarted < MaxCbCalls
  /\ cbStarted' = cbStarted + 1
  /\ failures' = 0
  /\ cbState' = "closed"
  /\ lastFailureTime' = Undefined
  /\ outcomes' = Append(outcomes, "reset")
  /\ UNCHANGED <<now, cbCall>>
  /\ UNCHANGED notCb

NextCb ==
  \/ Reset
  \/ \E c \in CbCallers : Execute_begin(c)
  \/ \E c \in CbCallers : Execute_success(c)
  \/ \E c \in CbCallers : Execute_failure(c)
  \/ Tick

\* the last n operations all failed
LastFailed(log, n) ==
  /\ Len(log) >= n
  /\ \A i \in (Len(log) - n + 1)..Len(log) : log[i] = "fail"

\* C6: the breaker moves from closed to open only when threshold (5)
\* operations in a row have failed, i.e. no successful operation lies between
\* the failures that open it.
C6_OpensOnlyOnConsecutiveFailures ==
  [][(cbState = "closed" /\ cbState' = "open") => LastFailed(outcomes', threshold)]_vars

\* the step is an execute() call being admitted or rejected
IsExecuteBegin == cbStarted' = cbStarted + 1 /\ outcomes' = outcomes

\* the breaker is open and the cool-down since the last failure is running
CoolingDown == cbState = "open" /\ now - lastFailureTime <= timeout

\* the step is the end of caller c's trial call with the given outcome
TrialEnds(c, outcome) ==
  /\ cbCall[c] = "trial"
  /\ cbCall'[c] = "idle"
  /\ outcomes' = Append(outcomes, outcome)

ResetSeen == \E i \in DOMAIN outcomes : outcomes[i] = "reset"

\* C14: while the breaker is open and the cool-down (60 s) has not elapsed,
\* execute rejects every call without starting its operation; the first
\* call after the cool-down runs as a trial in the half-open state; when
\* the trial succeeds the breaker becomes closed with failure count 0, and
\* when it fails the breaker is open again with the cool-down restarted
\* (runs in which reset() was called are left aside).
C14_CoolDownAndTrial ==
  [][/\ (CoolingDown /\ IsExecuteBegin) => (cbCall' = cbCall /\ cbState' = "open")
     /\ (cbState = "open" /\ ~CoolingDown /\ IsExecuteBegin)
        => (cbState' = "half-open" /\ \E c \in CbCallers : cbCall'[c] = "trial")
     /\ \A c \in CbCallers :
          /\ (TrialEnds(c, "ok") /\ ~ResetSeen)
             => (cbState' = "closed" /\ failures' = 0)
          /\ (TrialEnds(c, "fail") /\ ~ResetSeen)
             => (cbState' = "open" /\ lastFailureTime' = now)]_vars

\* a trial call is in flight and the breaker is half-open
TrialInFlight == cbState = "half-open" /\ \E c \in CbCallers : cbCall[c] = "trial"

\* the step is the successful end of a call of caller c that was admitted
\* while the breaker was not open
EarlierCallSucceeds(c) ==
  /\ cbCall[c] = "running"
  /\ cbCall'[c] = "idle"
  /\ outcomes' = Append(outcomes, "ok")

\* C39: after the cool-down the breaker admits exactly one trial call: while
\* a trial is in flight in half-open, every other concurrent execute is
\* rejected without invoking its operation, and the completion of a call
\* started before the breaker opened does not close the breaker.
C39_OneTrialOnly ==
  [][/\ (TrialInFlight /\ IsExecuteBegin) => cbCall' = cbCall
     /\ \A c \in CbCallers :
          (EarlierCallSucceeds(c) /\ cbState # "closed") => cbState' # "closed"]_vars

(***************************************************************************)
(* BaseAgent (ai-coo/src/agents/base-agent.ts)                             *)
(***************************************************************************)
TaskIds == {"t1", "t2", "t3"}
MaxMessages == 1

\* the await points of processTask, in order: memory.retrieveRelevant (107),
\* think (111), decide (115), act (120), learn (128)
InProgress == {"retrieve", "think", "decide", "act", "learn"}

InitAgent ==
  /\ agStatus = "idle"
  /\ currentTask = "none"
  /\ taskStatus = [t \in TaskIds |-> "none"]
  /\ pt = [t \in TaskIds |-> "none"]
  /\ actOk = [t \in TaskIds |-> FALSE]
  /\ wmMessages = 0
  /\ isShutdown = FALSE
  /\ ptError = [t \in TaskIds |-> "none"]

\* lines 100-107: processTask(task) is entered, directly or from
\* receiveMessage (lines 310-321, which creates the task with status pending)
ProcessTask_start(t) ==
  /\ pt[t] = "none"
  /\ taskStatus' = [taskStatus EXCEPT ![t] = "pending"]
  /\ currentTask' = t
  /\ agStatus' = "thinking"
  /\ pt' = [pt EXCEPT ![t] = "retrieve"]
  /\ UNCHANGED <<actOk, wmMessages, isShutdown, ptError>>
  /\ UNCHANGED notAg

\* lines 298-307: receiveMessage pushes the message to the working memory;
\* a task_request goes on into processTask
ReceiveMessage(t, isTaskRequest) ==
  /\ wmMessages < MaxMessages
  /\ wmMessages' = wmMessages + 1
  /\ IF isTaskRequest
     THEN /\ pt[t] = "none"
          /\ taskStatus' = [taskStatus EXCEPT ![t] = "pending"]
          /\ currentTask' = t
          /\ agStatus' = "thinking"
          /\ pt' = [pt EXCEPT ![t] = "retrieve"]
     ELSE UNCHANGED <<taskStatus, currentTask, agStatus, pt>>
  /\ UNCHANGED <<actOk, isShutdown, ptError>>
  /\ UNCHANGED notAg

\* the await point that follows `at` in processTask
NextPoint(at) ==
  CASE at = "retrieve" -> "think"
    [] at = "think" -> "decide"
    [] at = "decide" -> "act"
    [] at = "act" -> "learn"

\* lines 107-128: the awaited call of the task's processTask returns; when
\* decide has returned the agent starts acting (line 119).  act returns
\* {success, outcome}.
ProcessTask_step(t) ==
  /\ pt[t] \in {"retrieve", "think", "decide", "act"}
  /\ pt' = [pt EXCEPT ![t] = NextPoint(pt[t])]
  /\ agStatus' = IF pt[t] = "decide" THEN "acting" ELSE agStatus
  /\ IF pt[t] = "act"
     THEN \E success \in BOOLEAN : actOk' = [actOk EXCEPT ![t] = success]
     ELSE UNCHANGED actOk
  /\ UNCHANGED <<currentTask, taskStatus, wmMessages, isShutdown, ptError>>
  /\ UNCHANGED notAg

\* lines 128-135: learn has returned; the task gets its final status and the
\* agent goes back to idle
ProcessTask_finish(t) ==
  /\ pt[t] = "learn"
  /\ taskStatus' = [taskStatus EXCEPT ![t] =
                      IF actOk[t] THEN "completed" ELSE "failed"]
  /\ agStatus' = "idle"
  /\ pt' = [pt EXCEPT ![t] = "returned"]
  /\ UNCHANGED <<currentTask, actOk, wmMessages, isShutdown, ptError>>
  /\ UNCHANGED notAg

\* the calls processTask awaits at each point, none of them inside a
\* try/catch of its own: retrieveRelevant (line 107), think = llm.complete
\* then memory.store (lines 148-170), decide = reasoning.evaluate (lines 176-181), act (line 119),
\* learn = memory.store (lines 209-218)
AwaitedCalls(at) ==
  CASE at = "retrieve" -> {"memory.retrieveRelevant"}
    [] at = "think" -> {"llm.complete", "memory.store"}
    [] at = "decide" -> {"reasoning.evaluate"}
    [] at = "act" -> {"act"}
    [] at = "learn" -> {"memory.store"}

\* lines 137-142: the awaited call raises (memory, LLM, reasoning or the
\* action itself); the agent goes to error and processTask raises
ProcessTask_fault(t) ==
  /\ pt[t] \in InProgress
  /\ \E call \in AwaitedCalls(pt[t]) : ptError' = [ptError EXCEPT ![t] = call]
  /\ agStatus' = "error"
  /\ pt' = [pt EXCEPT ![t] = "raised"]
  /\ UNCHANGED <<currentTask, taskStatus, actOk, wmMessages, isShutdown>>
  /\ UNCHANGED notAg

\* lines 346-351
Shutdown ==
  /\ ~isShutdown
  /\ agStatus' = "idle"
  /\ isShutdown' = TRUE
  /\ UNCHANGED <<currentTask, taskStatus, pt, actOk, wmMessages, ptError>>
  /\ UNCHANGED notAg

NextAgent ==
  \/ \E t \in TaskIds : ProcessTask_start(t)
  \/ \E t \in TaskIds, isTaskRequest \in BOOLEAN : ReceiveMessage(t, isTaskRequest)
  \/ \E t \in TaskIds : ProcessTask_step(t)
  \/ \E t \in TaskIds : ProcessTask_finish(t)
  \/ \E t \in TaskIds : ProcessTask_fault(t)
  \/ Shutdown

\* C8: an agent processes at most one task at a time: no processTask call
\* starts work on a second task before the first call has ended.
C8_OneTaskAtATime ==
  \A t1, t2 \in TaskIds :
    (pt[t1] \in InProgress /\ pt[t2] \in InProgress) => t1 = t2

\* C9: once the agent's status is error it stays error: no processTask,
\* receiveMessage or shutdown call moves the agent out of the error state
\* (BaseAgent has no reset operation).
C9_ErrorIsSticky ==
  [][agStatus = "error" => agStatus' = "error"]_vars

\* C15: a processTask call that meets no fault moves the agent through
\* thinking (until decide has returned), then acting (until learn has
\* returned), then idle; when the call returns the agent is idle and the
\* task is completed if the action succeeded and failed otherwise; and the
\* agent enters error only by a fault raised during a call (runs in which
\* shutdown() was called are left aside).
C15_LifecycleOfFaultlessCall ==
  [][~isShutdown' =>
       /\ \A t \in TaskIds :
            /\ pt'[t] \in {"retrieve", "think", "decide"} => agStatus' = "thinking"
            /\ pt'[t] \in {"act", "learn"} => agStatus' = "acting"
            /\ (pt[t] = "learn" /\ pt'[t] = "returned")
               => /\ agStatus' = "idle"
                  /\ taskStatus'[t] = IF actOk[t] THEN "completed" ELSE "failed"
       /\ (agStatus # "error" /\ agStatus' = "error")
          => \E t \in TaskIds : pt[t] \in InProgress /\ pt'[t] = "raised"]_vars

\* C24: a failure of memory.store while the agent stores the thought (think)
\* or the experience (learn) is absorbed: processTask does not raise on it,
\* the agent does not go to error, and the task reaches completed or failed.
C24_MemoryFaultAbsorbed ==
  \A t \in TaskIds :
    ptError[t] = "memory.store"
    => /\ pt[t] # "raised"
       /\ taskStatus[t] \in {"completed", "failed"}

\* C38: when processTask has ended, by returning or by raising, the task's
\* status is terminal: completed or failed.
C38_EndedTaskIsTerminal ==
  \A t \in TaskIds :
    pt[t] \in {"returned", "raised"} => taskStatus[t] \in {"completed", "failed"}

(***************************************************************************)
(* MemoryManager (ai-coo/src/core/reasoning-engine.ts, lines 317-560)      *)
(* Importance, similarity and recency are counted in hundredths (70 stands *)
(* for 0.7), decay in sixteenths (16 stands for 1.0).                      *)
(***************************************************************************)
\* line 346: decay 1.0
DecayOne == 16
\* line 479
clusterThreshold == 80
MaxMemCalls == 2

\* Embedding vectors: unit vectors in a plane, at 0, 1, 2 and 5 steps of an
\* angle whose cosine is 0.9; NoEmbedding is the empty vector.
Embeddings == {"e0", "e1", "e2", "e5"}
NoEmbedding == "none"
StepsOf(e) == CASE e = "e0" -> 0 [] e = "e1" -> 1 [] e = "e2" -> 2 [] e = "e5" -> 5
\* the cosine of 0..5 steps of that angle, in hundredths
CosOfSteps == <<100, 90, 62, 22, -23, -63>>

\* lines 525-539
cosineSimilarity(a, b) ==
  IF a = NoEmbedding \/ b = NoEmbedding THEN 0
  ELSE LET d == StepsOf(a) - StepsOf(b) IN
       CosOfSteps[(IF d < 0 THEN -d ELSE d) + 1]

\* gpt.embedText(content): the vector the service answers for the content
\* of the item with this id; few contents lie far from the others
embedText(id) ==
  IF id % 25 = 1 THEN "e5"
  ELSE CASE id % 3 = 0 -> "e0" [] id % 3 = 1 -> "e1" [] OTHER -> "e2"

\* redis-manager.ts lines 78-94: hSet writes JSON.stringify(value), hGetAll
\* gives JSON.parse of it; a Date comes back as its ISO string
jsonRoundTrip(memory) == [memory EXCEPT !.lastAccessed.json = "string"]

shortTermCapacity == 50
longTermThreshold == 70
MaxStores == 3

\* the importances the store calls are given: one that ties with the
\* lowest-scoring stored item, one in the middle, one at the threshold
Importances == {2, 30, 70}

\* where a store call can raise: the embedding service (line 352), the
\* hSet of the short-term hash (356), the hSet of the long-term hash (444),
\* the hGetAll of manageCapacity (457), its first hDel (470)
StoreFaults == {"none", "embed", "hset", "promote", "read", "hdel"}

\* lines 340-348: the MemoryItem store builds
NewMemory(id, importance) ==
  [id |-> id, importance |-> importance, decay |-> DecayOne, accessCount |-> 0,
   embedding |-> embedText(id),
   lastAccessed |-> [json |-> "Date", hoursAgo |-> 0]]

\* The two hashes live in Redis and outlast the process, so initialize()
\* connects to whatever earlier store calls left: item i of an earlier run
\* was stored with importance 2*i hundredths, and last accessed zero, one
\* or two days ago.
PrefillImportance(i) == 2 * i
Prefill(n) ==
  {jsonRoundTrip([NewMemory(i, PrefillImportance(i))
                    EXCEPT !.lastAccessed.hoursAgo = 24 * (i % 3)]) : i \in 1..n}
PrefillSizes == {0, 20, shortTermCapacity - 1, shortTermCapacity}

NoStore == [outcome |-> "none"]
NoMemCall == [op |-> "none"]

InitMem ==
  /\ memReady = FALSE
  /\ shortTerm = {}
  /\ longTerm = {}
  /\ nextId = 1
  /\ stores = 0
  /\ lastStore = NoStore
  /\ memCalls = 0
  /\ memCall = NoMemCall

\* lines 334-337: initialize() connects to Redis, which holds the n items
\* that earlier runs left in the agent's hashes
Initialize(n) ==
  /\ ~memReady
  /\ memReady' = TRUE
  /\ shortTerm' = Prefill(n)
  /\ longTerm' = {m \in Prefill(n) : m.importance >= longTermThreshold}
  /\ nextId' = n + 1
  /\ UNCHANGED <<stores, lastStore, memCalls, memCall>>
  /\ UNCHANGED notMem

\* lines 462-463
Score(m) == m.importance * m.decay * (m.accessCount + 1)

\* variant: the sort is descending
Lowest_takesHighest(S) == {m \in S : \A o \in S : Score(m) >= Score(o)}

\* the items the ascending sort of lines 461-465 can put first: the order
\* among equal scores is the order Redis returned them in
Lowest(S) == {m \in S : \A o \in S : Score(m) <= Score(o)}

\* lines 467-472: the tiers that removing the first k items of the sorted
\* list can leave
RECURSIVE RemoveLowest(_, _)
RemoveLowest(S, k) ==
  IF k <= 0 \/ S = {}
  THEN {S}
  ELSE UNION {RemoveLowest(S \ {m}, k - 1) : m \in Lowest(S)}

manageCapacity_keepsOneOver(shortTermMemories) ==
  IF Cardinality(shortTermMemories) > shortTermCapacity
  THEN RemoveLowest(shortTermMemories,
                    Cardinality(shortTermMemories) - shortTermCapacity - 1)
  ELSE {shortTermMemories}

\* lines 456-474: the short-term tiers manageCapacity can leave
manageCapacity(shortTermMemories) ==
  IF Cardinality(shortTermMemories) > shortTermCapacity
  THEN RemoveLowest(shortTermMemories,
                    Cardinality(shortTermMemories) - shortTermCapacity)
  ELSE {shortTermMemories}

\* variant: the long-term hash is overwritten by the promoted item
promoteToLongTerm_overwrites(long, memory) == {memory}

\* lines 443-446
promoteToLongTerm(long, memory) == long \cup {memory}

\* lines 339-367: the whole store call.  A raise leaves what the call had
\* written up to that point.
Store(importance, embeddingGiven, fault) ==
  /\ memReady
  /\ stores < MaxStores
  /\ fault = "embed" => ~embeddingGiven
  /\ fault = "promote" => importance >= longTermThreshold
  /\ fault = "hdel" => Cardinality(shortTerm) >= shortTermCapacity
  /\ LET memory == jsonRoundTrip(NewMemory(nextId, importance))
         written == shortTerm \cup {memory}
         promoted == IF importance >= longTermThreshold
                     THEN promoteToLongTerm(longTerm, memory)
                     ELSE longTerm
         seen == [id |-> nextId, importance |-> importance,
                  embeddingGiven |-> embeddingGiven, fault |-> fault,
                  before |-> Cardinality(shortTerm)]
     IN  /\ nextId' = nextId + 1
         /\ stores' = stores + 1
         /\ UNCHANGED <<memReady, memCalls, memCall>>
         /\ CASE fault \in {"embed", "hset"} ->
                   /\ UNCHANGED <<shortTerm, longTerm>>
                   /\ lastStore' = seen @@ [outcome |-> "raised"]
              [] fault = "promote" ->
                   /\ shortTerm' = written
                   /\ UNCHANGED longTerm
                   /\ lastStore' = seen @@ [outcome |-> "raised"]
              [] fault \in {"read", "hdel"} ->
                   /\ shortTerm' = written
                   /\ longTerm' = promoted
                   /\ lastStore' = seen @@ [outcome |-> "raised"]
              [] OTHER ->
                   /\ shortTerm' \in manageCapacity(written)
                   /\ longTerm' = promoted
                   /\ lastStore' = seen @@ [outcome |-> "completed"]
  /\ UNCHANGED notMem

NextStore ==
  \/ \E n \in PrefillSizes : Initialize(n)
  \/ \E importance \in Importances, embeddingGiven \in BOOLEAN, fault \in StoreFaults :
    Store(importance, embeddingGiven, fault)

\* C4: after every store call that completes, in any sequence of store
\* calls on one MemoryManager, the short-term tier holds at most
\* shortTermCapacity (50) items.
C4_ShortTermWithinCapacity ==
  lastStore.outcome = "completed" => Cardinality(shortTerm) <= shortTermCapacity

\* a store call completed on a tier that a raised store had left over
\* capacity, evicted, and left the tier exactly full
C4_Witness ==
  /\ lastStore.outcome = "completed"
  /\ lastStore.before > shortTermCapacity
  /\ Cardinality(shortTerm) = shortTermCapacity

\* the step is a store call that completed
StoreCompletes == stores' = stores + 1 /\ lastStore'.outcome = "completed"

\* the short-term hash as that store call's hSet left it
WrittenByStore ==
  shortTerm \cup {jsonRoundTrip(NewMemory(lastStore'.id, lastStore'.importance))}

\* C32: when store evicts from the short-term tier, it evicts exactly
\* (size - capacity) items, and every evicted item has a score
\* importance * decay * (accessCount + 1) no greater than the score of
\* every item that remains in the tier.
C32_EvictsLowestScores ==
  [][StoreCompletes
     => LET evicted == WrittenByStore \ shortTerm' IN
        /\ shortTerm' \subseteq WrittenByStore
        /\ Cardinality(evicted) =
             IF Cardinality(WrittenByStore) > shortTermCapacity
             THEN Cardinality(WrittenByStore) - shortTermCapacity ELSE 0
        /\ \A e \in evicted : \A r \in shortTerm' : Score(e) <= Score(r)]_vars

\* a store on a full tier completed: the new item stayed, the item with the
\* lowest score is gone
C32_Witness ==
  /\ lastStore.outcome = "completed"
  /\ lastStore.before = shortTermCapacity
  /\ \E m \in shortTerm : m.id = lastStore.id
  /\ \A m \in shortTerm : m.id # 1

\* C10: when the embedding service fails during store, the item is still
\* written to the short-term tier, without an embedding.
C10_EmbeddingFailureKeepsItem ==
  (lastStore.outcome # "none" /\ lastStore.fault = "embed")
  => \E m \in shortTerm : m.id = lastStore.id /\ m.embedding = NoEmbedding

\* ---- retrieveRelevant

\* exp(-days) for 0, 1, 2 days, in hundredths
RecencyOfDays == <<100, 37, 14>>

\* lines 541-548: lastAccessed.getTime() exists on a Date only; on the ISO
\* string that hGetAll returns the call raises a TypeError
calculateRecency(lastAccessed) ==
  IF lastAccessed.json = "Date"
  THEN [raised |-> FALSE, value |-> RecencyOfDays[(lastAccessed.hoursAgo \div 24) + 1]]
  ELSE [raised |-> TRUE, value |-> 0]

\* line 380, times 10 * DecayOne:
\* similarity * 0.5 + recency * 0.2 + importance * decay * 0.3
RelevanceScore(similarity, recency, importance, decay) ==
  5 * DecayOne * similarity + 2 * DecayOne * recency + 3 * importance * decay

\* lines 429-441: the items of both hashes, as hGetAll returns them
getAllMemories(short, long) ==
  {[tier |-> "short", memory |-> m] : m \in short}
  \cup {[tier |-> "long", memory |-> m] : m \in long}

\* lines 376-383: one candidate with its score, the recency taken from
\* `recency`
Scored(candidate, queryEmbedding, recency) ==
  [candidate |-> candidate,
   score |-> RelevanceScore(
               cosineSimilarity(queryEmbedding, candidate.memory.embedding),
               recency, candidate.memory.importance, candidate.memory.decay)]

\* lines 386-388: the descending sort and slice(0, limit); the order among
\* equal scores is the order the hashes returned them in
Highest(S) == {x \in S : \A o \in S : x.score >= o.score}
RECURSIVE TakeTop(_, _)
TakeTop(S, k) ==
  IF k <= 0 \/ S = {}
  THEN {{}}
  ELSE UNION {{R \cup {x} : R \in TakeTop(S \ {x}, k - 1)} : x \in Highest(S)}

\* lines 448-454: updateMemory writes the item to the hash its importance
\* names, whether or not that hash holds it
Put(tier, memory) == {o \in tier : o.id # memory.id} \cup {jsonRoundTrip(memory)}
updateMemory(st, memory) ==
  IF memory.importance >= longTermThreshold
  THEN [st EXCEPT !.long = Put(@, memory)]
  ELSE [st EXCEPT !.short = Put(@, memory)]

\* lines 389-395: access count and time of every returned item, written back
RECURSIVE Touch(_, _)
Touch(st, returned) ==
  IF returned = {} THEN st
  ELSE LET x == CHOOSE x \in returned : TRUE IN
       Touch(updateMemory(st,
               [x.candidate.memory EXCEPT
                  !.accessCount = @ + 1,
                  !.lastAccessed = [json |-> "Date", hoursAgo |-> 0]]),
             returned \ {x})

Limits == {1, 10}
RetrieveFaults == {"none", "embed"}

\* lines 369-401: the whole retrieveRelevant call
RetrieveRelevant(queryEmbedding, limit, fault) ==
  /\ memReady
  /\ memCalls < MaxMemCalls
  /\ memCalls' = memCalls + 1
  /\ LET candidates == getAllMemories(shortTerm, longTerm)
         raised == \/ fault = "embed"
                   \/ \E c \in candidates :
                        calculateRecency(c.memory.lastAccessed).raised
         scored == {Scored(c, queryEmbedding,
                           calculateRecency(c.memory.lastAccessed).value) :
                      c \in candidates}
         seen == [op |-> "retrieveRelevant", query |-> queryEmbedding,
                  limit |-> limit, fault |-> fault, candidates |-> candidates]
     IN  IF raised
         THEN /\ memCall' = seen @@ [outcome |-> "raised", result |-> {}]
              /\ UNCHANGED <<shortTerm, longTerm>>
         ELSE \E returned \in TakeTop(scored, limit) :
                LET st == Touch([short |-> shortTerm, long |-> longTerm], returned) IN
                /\ memCall' = seen @@ [outcome |-> "returned",
                                       result |-> {x.candidate : x \in returned}]
                /\ shortTerm' = st.short
                /\ longTerm' = st.long
  /\ UNCHANGED <<memReady, nextId, stores, lastStore>>
  /\ UNCHANGED notMem

\* the score line 380 gives a candidate whose lastAccessed is read as the
\* time it stands for
ScoreOf(candidate, queryEmbedding) ==
  Scored(candidate, queryEmbedding,
         RecencyOfDays[(candidate.memory.lastAccessed.hoursAgo \div 24) + 1]).score

\* three memories with (similarity, recency, importance * decay) =
\* (0.9, 0.1, 0.2), (0.2, 0.9, 0.9), (0.5, 0.5, 0.5)
ExampleScored ==
  {[candidate |-> 1, score |-> RelevanceScore(90, 10, 20, DecayOne)],
   [candidate |-> 2, score |-> RelevanceScore(20, 90, 90, DecayOne)],
   [candidate |-> 3, score |-> RelevanceScore(50, 50, 50, DecayOne)]}

\* C22: retrieveRelevant(query, limit) returns at most limit items, and every
\* item it returns has a score 0.5 * similarity + 0.2 * recency +
\* 0.3 * importance * decay at least that of every candidate it does not
\* return; of three memories scored (0.9, 0.1, 0.2), (0.2, 0.9, 0.9) and
\* (0.5, 0.5, 0.5) it returns, with limit 1, the second.
C22_ReturnsTopScored ==
  /\ \A top \in TakeTop(ExampleScored, 1) : \A x \in top : x.candidate = 2
  /\ (memCall.op = "retrieveRelevant" /\ memCall.fault = "none")
     => /\ memCall.outcome = "returned"
        /\ Cardinality(memCall.result) <= memCall.limit
        /\ memCall.candidates # {} => memCall.result # {}
        /\ \A r \in memCall.result :
             \A c \in memCall.candidates \ memCall.result :
               ScoreOf(r, memCall.query) >= ScoreOf(c, memCall.query)

\* the lists that sort and slice (lines 389-391) make of the candidates the
\* last retrieveRelevant call read, every lastAccessed read as the time it
\* stands for
TopOfCandidates ==
  TakeTop({[candidate |-> c, score |-> ScoreOf(c, memCall.query)] :
             c \in memCall.candidates}, memCall.limit)

EmbeddingOrder == <<"e0", "e1", "e2", "e5">>
StepsOfOrder(e) == CHOOSE i \in 0..(Len(EmbeddingOrder) - 1) : EmbeddingOrder[i + 1] = e
Rankings ==
  {[e \in Embeddings |->
      ((StepsOfOrder(e) + shift) % Len(EmbeddingOrder)) + 1] :
     shift \in 0..(Len(EmbeddingOrder) - 1)}
ComesFirst(a, b, ranking) ==
  \/ ranking[a.embedding] < ranking[b.embedding]
  \/ ranking[a.embedding] = ranking[b.embedding] /\ a.id <= b.id
RECURSIVE hGetAll(_, _)
hGetAll(hash, ranking) ==
  IF hash = {} THEN <<>>
  ELSE LET first == CHOOSE m \in hash : \A o \in hash : ComesFirst(m, o, ranking)
       IN <<first>> \o hGetAll(hash \ {first}, ranking)

\* lines 476-503: clusterMemories, `clusters` being the clusters built so far
RECURSIVE clusterMemories(_, _)
clusterMemories(memories, clusters) ==
  IF memories = <<>> THEN clusters
  ELSE LET memory == Head(memories)
           fits == {i \in DOMAIN clusters :
                      cosineSimilarity(memory.embedding, clusters[i][1].embedding)
                        > clusterThreshold}
       IN IF fits = {}
          THEN clusterMemories(Tail(memories), Append(clusters, <<memory>>))
          ELSE LET i == CHOOSE i \in fits : \A j \in fits : i <= j IN
               clusterMemories(Tail(memories),
                               [clusters EXCEPT ![i] = Append(@, memory)])

\* line 519: Math.max of the importances
MaxImportance(cluster) ==
  CHOOSE v \in {cluster[i].importance : i \in DOMAIN cluster} :
    \A i \in DOMAIN cluster : cluster[i].importance <= v

\* lines 339-367: what a store call that completes can leave
store(st, importance) ==
  LET memory == jsonRoundTrip(NewMemory(st.nextId, importance))
      written == st.short \cup {memory}
      promoted == IF importance >= longTermThreshold
                  THEN promoteToLongTerm(st.long, memory) ELSE st.long
  IN {[short |-> kept, long |-> promoted, nextId |-> st.nextId + 1] :
        kept \in manageCapacity(written)}

\* lines 418-421: the decay of every item of the cluster is halved and the
\* item written back with updateMemory, one after the other: each hash ends
\* with the last write of every id it was given
DecayOriginals(st, cluster) ==
  LET halved(i) == [cluster[i] EXCEPT !.decay = @ \div 2]
      lastWrite(id) ==
        halved(CHOOSE i \in DOMAIN cluster :
                 /\ cluster[i].id = id
                 /\ \A j \in DOMAIN cluster : cluster[j].id = id => j <= i)
      toLong == {cluster[i].id : i \in {i \in DOMAIN cluster :
                   cluster[i].importance >= longTermThreshold}}
      toShort == {cluster[i].id : i \in DOMAIN cluster} \ toLong
  IN [st EXCEPT
        !.short = {o \in @ : o.id \notin toShort}
                  \cup {jsonRoundTrip(lastWrite(id)) : id \in toShort},
        !.long = {o \in @ : o.id \notin toLong}
                 \cup {jsonRoundTrip(lastWrite(id)) : id \in toLong}]

\* lines 413-423: the loop over the clusters; the states it can end in
RECURSIVE ConsolidateClusters(_, _)
ConsolidateClusters(st, clusters) ==
  IF clusters = <<>> THEN {st}
  ELSE IF Len(Head(clusters)) > 3
  THEN UNION {ConsolidateClusters(DecayOriginals(stored, Head(clusters)),
                                  Tail(clusters)) :
                stored \in store(st, MaxImportance(Head(clusters)))}
  ELSE ConsolidateClusters(st, Tail(clusters))

ConsolidateFaults == {"none", "gpt"}

\* lines 408-425: the whole consolidate call; when the completion service
\* fails, the first synthesizeMemories raises and nothing has been written
Consolidate(ranking, fault) ==
  /\ memReady
  /\ memCalls < MaxMemCalls
  /\ memCalls' = memCalls + 1
  /\ LET memories == hGetAll(shortTerm, ranking) \o hGetAll(longTerm, ranking)
         clusters == clusterMemories(memories, <<>>)
         seen == [op |-> "consolidate", fault |-> fault, short |-> shortTerm,
                  long |-> longTerm, nextId |-> nextId, clusters |-> clusters]
     IN  IF fault = "gpt" /\ \E i \in DOMAIN clusters : Len(clusters[i]) > 3
         THEN /\ memCall' = seen @@ [outcome |-> "raised"]
              /\ UNCHANGED <<shortTerm, longTerm, nextId>>
         ELSE \E st \in ConsolidateClusters(
                          [short |-> shortTerm, long |-> longTerm,
                           nextId |-> nextId], clusters) :
                /\ memCall' = seen @@ [outcome |-> "completed"]
                /\ shortTerm' = st.short
                /\ longTerm' = st.long
                /\ nextId' = st.nextId
  /\ UNCHANGED <<memReady, stores, lastStore>>
  /\ UNCHANGED notMem

NextMem ==
  \/ \E n \in PrefillSizes : Initialize(n)
  \/ \E query \in Embeddings, limit \in Limits, fault \in RetrieveFaults :
       RetrieveRelevant(query, limit, fault)
  \/ \E ranking \in Rankings, fault \in ConsolidateFaults :
       Consolidate(ranking, fault)

\* the clusters of the last consolidate call that had more than 3 items
BigClusters == {i \in DOMAIN memCall.clusters : Len(memCall.clusters[i]) > 3}

\* the items stored since the last consolidate call began
NewItems == {m \in shortTerm \cup longTerm : m.id >= memCall.nextId}

\* C30: consolidate stores, for each cluster of more than 3 items, exactly
\* one new synthesized item whose importance is the highest importance in the
\* cluster, halves the decay of every original item of such a cluster and
\* removes none of them; the items of clusters of at most 3 are left as
\* they were.
C30_ConsolidateSynthesizesAndDecays ==
  (memCall.op = "consolidate" /\ memCall.outcome = "completed")
  => /\ Cardinality({m.id : m \in NewItems}) = Cardinality(BigClusters)
     /\ \A i \in BigClusters :
          /\ \E m \in NewItems :
               m.importance = MaxImportance(memCall.clusters[i])
          \* a promoted item is held by both hashes: one of its copies
          \* has half the decay one of them had
          /\ \A k \in DOMAIN memCall.clusters[i] :
               \E o \in shortTerm \cup longTerm :
                 \E c \in DOMAIN memCall.clusters[i] :
                   /\ o.id = memCall.clusters[i][k].id
                   /\ memCall.clusters[i][c].id = o.id
                   /\ 2 * o.decay = memCall.clusters[i][c].decay
     /\ \A i \in DOMAIN memCall.clusters \ BigClusters :
          \A k \in DOMAIN memCall.clusters[i] :
            memCall.clusters[i][k] \in shortTerm \cup longTerm

\* C31: every two items that consolidate places in the same cluster have an
\* embedding cosine similarity above 0.8.
C31_ClustersPairwiseSimilar ==
  memCall.op = "consolidate"
  => \A i \in DOMAIN memCall.clusters :
       \A a, b \in DOMAIN memCall.clusters[i] :
         cosineSimilarity(memCall.clusters[i][a].embedding,
                          memCall.clusters[i][b].embedding) > clusterThreshold

\* the ids of the long-term hash
LongTermIds == {m.id : m \in longTerm}

\* C34: after store completes, the stored item is in the long-term tier if
\* and only if its importance is at least longTermThreshold (0.7), whether
\* store was called directly or by consolidate; and no operation (store, its
\* capacity eviction, retrieveRelevant, consolidate) ever removes an item
\* from the long-term tier.
C34_LongTermByImportanceAndKept ==
  /\ [](lastStore.outcome = "completed"
         => (lastStore.id \in LongTermIds
               <=> lastStore.importance >= longTermThreshold))
  /\ []((memCall.op = "consolidate" /\ memCall.outcome = "completed")
         => \A m \in NewItems :
              m.id \in LongTermIds <=> m.importance >= longTermThreshold)
  /\ [][LongTermIds \subseteq LongTermIds']_vars

\* a consolidate call on a full short-term tier has stored a synthesized
\* item that went to the long-term tier, evicted for it, and written the
\* decayed originals back; the long-term items it began with are all there
C34_Witness ==
  /\ memCall.op = "consolidate"
  /\ memCall.outcome = "completed"
  /\ Cardinality(memCall.short) = shortTermCapacity
  /\ memCall.long # {}
  /\ \E m \in longTerm : m.id >= memCall.nextId
  /\ \E m \in longTerm : m.id < memCall.nextId /\ m.decay < DecayOne

\* C37: the short-term capacity bound holds over all memory operations:
\* after any completed sequence of store, retrieveRelevant and consolidate
\* calls the short-term tier holds at most shortTermCapacity (50) items; an
\* evicted item is never written back by the access-count update of
\* retrieveRelevant or by the decay update of consolidate.
C37_CapacityOverAllOperations ==
  /\ memCall.op # "none"
  /\ memCall.outcome \in {"completed", "returned"}
  => Cardinality(shortTerm) <= shortTermCapacity

(***************************************************************************)
(* GlobalErrorHandler (shared/utils/error-handling.ts, lines 87-213)       *)
(***************************************************************************)
MaxHandles == 2

\* the errors handed to handle(): class and, for a FieldElevateError, the
\* severity its constructor sets (lines 1-79); a plain Error has none
Errors ==
  { [class |-> "RiskLimitError", severity |-> "critical"],
    [class |-> "RetryableError", severity |-> "medium"],
    [class |-> "ValidationError", severity |-> "low"],
    [class |-> "ExecutionError", severity |-> "high"],
    [class |-> "ExecutionError", severity |-> "critical"],
    [class |-> "Error", severity |-> "none"] }

\* lines 120-177: the default handlers in the order they are registered,
\* each with the class its canHandle accepts
Handlers ==
  << [name |-> "retry", accepts |-> "RetryableError"],
     [name |-> "risk_limit", accepts |-> "RiskLimitError"],
     [name |-> "validation", accepts |-> "ValidationError"] >>

\* line 105: this.handlers.find(h => h.canHandle(error)), or "default"
FindHandler(error) ==
  LET matching == {i \in DOMAIN Handlers : Handlers[i].accepts = error.class} IN
  IF matching = {} THEN "default"
  ELSE Handlers[CHOOSE i \in matching : \A j \in matching : i <= j].name

\* the requests a handler sends, in order (lines 123-135, 141-158, 165-175,
\* 196-206)
HandlerRequests(handler) ==
  CASE handler = "retry" -> <<>>
    [] handler = "risk_limit" -> <<"emergency_stop", "create_alert:critical">>
    [] handler = "validation" -> <<"validation:failed">>
    [] OTHER -> <<"create_alert:high">>

\* lines 100-118: the requests of one handle() call when none fails: the
\* error log, the handler's requests, the notification of a critical error
RequestsOf(error) ==
  <<"error:logged">> \o HandlerRequests(FindHandler(error))
  \o (IF error.severity = "critical" THEN <<"send_notification">> ELSE <<>>)

InitEh ==
  /\ ehRequests = <<>>
  /\ ehLast = [error |-> "none"]
  /\ ehHandled = 0

\* lines 100-118: handle(error).  Every request is awaited; the first one
\* that fails (failAt, 0 when none does) makes handle raise there.
Handle(error, failAt) ==
  /\ ehHandled < MaxHandles
  /\ failAt \in 0..Len(RequestsOf(error))
  /\ LET plan == RequestsOf(error)
         sent == IF failAt = 0 THEN plan ELSE SubSeq(plan, 1, failAt)
     IN  /\ ehRequests' = ehRequests \o
              [i \in 1..Len(sent) |-> [op |-> sent[i], ok |-> i # failAt]]
         /\ ehLast' = [error |-> error.class, severity |-> error.severity,
                       handler |-> IF failAt = 1 THEN "none"
                                   ELSE FindHandler(error),
                       sent |-> sent, raised |-> failAt # 0]
  /\ ehHandled' = ehHandled + 1
  /\ UNCHANGED notEh

NextEh ==
  \E error \in Errors :
    \E failAt \in 0..Len(RequestsOf(error)) : Handle(error, failAt)

Sent(op) == \E i \in DOMAIN ehLast.sent : ehLast.sent[i] = op

\* C21: handling a RiskLimitError always sends both the emergency_stop
\* request to trade-runner and the critical alert, whatever becomes of the
\* error logging and of the other request, and never routes the error to the
\* retry handler.
C21_RiskLimitAlwaysEscalates ==
  ehLast.error = "RiskLimitError"
  => /\ Sent("emergency_stop")
     /\ Sent("create_alert:critical")
     /\ ehLast.handler # "retry"

StepFailed(stepName) ==
  \E i \in DOMAIN workflow.steps :
    workflow.steps[i].name = stepName /\ workflow.steps[i].status = "failed"

\* the request by which the step loop asked an agent to execute the step
LoopRequest(stepName) ==
  CHOOSE j \in DOMAIN invoked : invoked[j].action = stepName /\ ~invoked[j].manual

\* C2: in daily_operations, when the agent bound to the critical step
\* risk_check fails, executeWorkflow ends with status failed and raises, and
\* after that failure no agent is asked to execute a step that comes after
\* risk_check in the step list.
C2_CriticalFailureStopsLaterSteps ==
  (wfPc = "raised" /\ StepFailed("risk_check"))
  => /\ workflow.status = "failed"
     /\ \A j \in DOMAIN invoked :
          j > LoopRequest("risk_check")
          => StepPos(invoked[j].action) <= StepPos("risk_check")

\* the names of the StepRecords, in the order of workflow.steps
StepRecordNames == [i \in DOMAIN workflow.steps |-> workflow.steps[i].name]

\* only non-critical steps failed, at least one did, and no step asked to halt
OnlyNonCriticalFailures ==
  /\ \E n \in StepNames : StepFailed(n)
  /\ \A n \in StepNames : StepFailed(n) => ~isCriticalStep(n)
  /\ \A i \in DOMAIN workflow.steps : ~workflow.steps[i].halt

\* C5: in daily_operations, when a non-critical step fails (and nothing else
\* goes wrong in the step sequence), every remaining step is still invoked in
\* order, the workflow ends with status completed, its step list holds a
\* failed StepRecord for that step and the results map has no entry for it.
C5_NonCriticalFailureCompletes ==
  (wfPc \in {"returned", "raised"} /\ OnlyNonCriticalFailures)
  => /\ workflow.status = "completed"
     /\ StepRecordNames = [i \in DOMAIN DailySteps |-> DailySteps[i].name]
     /\ \A n \in StepNames : StepFailed(n) => n \notin workflow.results

\* executeWorkflow has ended: it returned or raised
WorkflowEnded == wfPc \in {"returned", "raised"}

\* the store_workflow requests sent to the storage collaborator
StoreRequests == {i \in DOMAIN mcpCalls : mcpCalls[i].op = "store_workflow"}

\* C12: when executeWorkflow ends, Completed or Failed, the workflow record
\* (kind, status, results and all its StepRecords) has been submitted to the
\* storage collaborator's store_workflow operation.
C12_WorkflowRecordSubmitted ==
  WorkflowEnded
  => \E i \in StoreRequests :
       /\ mcpCalls[i].type = workflow.type
       /\ mcpCalls[i].status = workflow.status
       /\ mcpCalls[i].results = workflow.results
       /\ "steps" \in DOMAIN mcpCalls[i]
       /\ mcpCalls[i].steps = workflow.steps

\* C13: a failure of store_workflow is not propagated: the workflow, whose
\* step sequence finished without a critical failure, keeps status
\* completed and executeWorkflow returns its results.
C13_StorageFailureNotPropagated ==
  (WorkflowEnded /\ \E i \in StoreRequests : ~mcpCalls[i].ok)
  => /\ wfPc = "returned"
     /\ workflow.status = "completed"
     /\ workflow.results = results

\* the names of the steps whose StepRecord is completed
CompletedStepNames ==
  {workflow.steps[i].name : i \in {j \in DOMAIN workflow.steps :
                                     workflow.steps[j].status = "completed"}}

\* C16: when a step returns with the halt flag set, no later step is
\* invoked, the step's StepRecord is completed, and the workflow ends with
\* status completed holding the results of exactly the steps executed.
C16_HaltStopsWithoutFailure ==
  \A i \in DOMAIN workflow.steps :
    (WorkflowEnded /\ workflow.steps[i].halt)
    => /\ i = Len(workflow.steps)
       /\ Len(invoked) = i
       /\ workflow.steps[i].status = "completed"
       /\ workflow.status = "completed"
       /\ workflow.results = CompletedStepNames

(***************************************************************************)
(* MasterCoordinator: the emergency_response workflow                      *)
(***************************************************************************)
Severities == {"critical", "high", "medium", "low"}

\* .env.railway lines 758-759
NonCriticalAgents == <<"reporting", "performance_analyst">>

\* the response strategies the market analyst may answer with: their
\* strategic actions, of which executeStrategicAction knows the first only
\* (lines 805-824, 'stop_trading' is not among its cases)
Strategies == {<<>>, <<"reduce_positions">>, <<"stop_trading", "reduce_positions">>}
KnownStrategicActions == {"reduce_positions", "hedge_portfolio", "increase_cash"}

\* variant: a critical emergency only raises the monitoring frequency
executeImmediateActions_noHalt(severity) ==
  IF severity \in {"high", "critical"}
  THEN <<"update_config", "send_alert">> ELSE <<>>

\* lines 536-562: the requests of executeImmediateActions, each awaited
\* before the next is sent
executeImmediateActions(severity) ==
  (IF severity = "critical"
   THEN <<"emergency_stop">>
        \o [i \in DOMAIN NonCriticalAgents |-> "pause"]
   ELSE <<>>)
  \o (IF severity \in {"high", "critical"}
      THEN <<"update_config", "send_alert">> ELSE <<>>)

\* the receiver of the i-th immediate request
ImmediateTarget(severity, i) ==
  LET op == executeImmediateActions(severity)[i] IN
  CASE op = "emergency_stop" -> "trade-runner"
    [] op = "pause" -> NonCriticalAgents[i - 1]
    [] OTHER -> "ops-console"

ImmediateCalls(severity) ==
  [i \in DOMAIN executeImmediateActions(severity) |->
     [op |-> executeImmediateActions(severity)[i],
      to |-> ImmediateTarget(severity, i), swallow |-> FALSE]]

\* lines 313-335: what follows the immediate actions, up to the strategy
AssessmentCalls ==
  << [op |-> "get_system_state", to |-> "hub", swallow |-> FALSE],
     [op |-> "assessEmergency", to |-> "risk_monitor", swallow |-> FALSE],
     [op |-> "determineResponseStrategy", to |-> "market_analyst",
      swallow |-> FALSE] >>

\* lines 575-600: one call per strategic action, its failure recorded in the
\* results and not raised
StrategyCalls(strategy) ==
  [i \in DOMAIN strategy |->
     [op |-> strategy[i], to |-> "execution", swallow |-> TRUE]]

\* lines 328-335 and 602-609
ReportCalls ==
  << [op |-> "analyzeIncident", to |-> "performance_analyst", swallow |-> FALSE],
     [op |-> "generateIncidentReport", to |-> "reporting", swallow |-> FALSE] >>

NoEmergency == [severity |-> "none", status |-> "none", error |-> "none"]

InitEm ==
  /\ emWorkflow = NoEmergency
  /\ emPc = "idle"
  /\ emTodo = <<>>
  /\ emRequests = <<>>

\* lines 67-81, 102-104, 307-311: executeWorkflow('emergency_response',
\* {trigger, severity}) creates the workflow and enters the response
ExecuteWorkflow_emergency(severity) ==
  /\ emPc = "idle"
  /\ emWorkflow' = [severity |-> severity, status |-> "running",
                    error |-> "none"]
  /\ emTodo' = ImmediateCalls(severity) \o AssessmentCalls
  /\ emPc' = "response"
  /\ UNCHANGED emRequests
  /\ UNCHANGED notEm

\* the calls still to make once `call` has returned; the strategy's actions
\* and the report follow the answer of determineResponseStrategy
TodoAfter(call, todo, strategy) ==
  IF call.op = "determineResponseStrategy"
  THEN StrategyCalls(strategy) \o ReportCalls
  ELSE Tail(todo)

\* lines 307-343: the next awaited call of executeEmergencyResponse is sent
\* and answered.  An action type executeStrategicAction does not know raises
\* before any request is sent.
EmergencyResponse_call ==
  /\ emPc = "response"
  /\ emTodo # <<>>
  /\ \E ok \in BOOLEAN, strategy \in Strategies :
       LET call == Head(emTodo)
           unknown == call.swallow /\ call.op \notin KnownStrategicActions
           answered == ok /\ ~unknown
           rest == TodoAfter(call, emTodo, strategy)
       IN
       /\ call.op # "determineResponseStrategy" => strategy = <<>>
       /\ unknown => ~ok
       /\ emRequests' = IF unknown THEN emRequests
                        ELSE Append(emRequests,
                               [op |-> call.op, to |-> call.to, ok |-> ok])
       /\ IF answered \/ call.swallow
          THEN /\ emTodo' = rest
               /\ emPc' = IF rest = <<>> THEN "store" ELSE "response"
               /\ UNCHANGED emWorkflow
          ELSE \* lines 123-126
               /\ emTodo' = <<>>
               /\ emPc' = "catch"
               /\ emWorkflow' = [emWorkflow EXCEPT !.status = "failed",
                                                   !.error = call.op]
  /\ UNCHANGED notEm

\* lines 114-121 and 694-702
EmergencyResponse_store ==
  /\ emPc = "store"
  /\ \E ok \in BOOLEAN :
       /\ emRequests' = Append(emRequests,
                           [op |-> "store_workflow", to |-> "data-hub", ok |-> ok])
       /\ emWorkflow' = [emWorkflow EXCEPT
                           !.status = IF ok THEN "completed" ELSE "failed",
                           !.error = IF ok THEN @ ELSE "store_workflow"]
       /\ emPc' = IF ok THEN "returned" ELSE "catch"
  /\ UNCHANGED emTodo
  /\ UNCHANGED notEm

\* lines 128-131 and 704-726: handleWorkflowFailure for a workflow that is
\* not daily_operations (failure log, operations alert), then the raise
EmergencyResponse_fail ==
  /\ emPc = "catch"
  /\ \E logOk \in BOOLEAN, notifyOk \in BOOLEAN :
       emRequests' = emRequests \o
         (IF logOk
          THEN << [op |-> "workflow:failed", to |-> "hub", ok |-> TRUE],
                  [op |-> "create_alert", to |-> "ops-console", ok |-> notifyOk] >>
          ELSE << [op |-> "workflow:failed", to |-> "hub", ok |-> FALSE] >>)
  /\ emPc' = "raised"
  /\ UNCHANGED <<emWorkflow, emTodo>>
  /\ UNCHANGED notEm

NextEm ==
  \/ \E severity \in Severities : ExecuteWorkflow_emergency(severity)
  \/ EmergencyResponse_call
  \/ EmergencyResponse_store
  \/ EmergencyResponse_fail

\* the requests that belong to the response proper: everything but the halt,
\* the pauses, the workflow record and the failure handling
ResponseOps ==
  {"update_config", "send_alert", "get_system_state", "assessEmergency",
   "determineResponseStrategy", "analyzeIncident", "generateIncidentReport"}
  \cup KnownStrategicActions

\* a request with this op and receiver was answered before position j
AnsweredBefore(j, op, to) ==
  \E i \in 1..(j - 1) :
    emRequests[i].op = op /\ emRequests[i].to = to /\ emRequests[i].ok

\* C29: in an emergency_response workflow with severity critical the
\* trading halt and the pause of every non-critical agent are requested (and
\* answered) before the risk assessment or any other part of the response
\* starts, and they stay in the record of the workflow when the later
\* sequence fails; with any other severity neither is requested.
C29_HaltAndPauseFirst ==
  /\ emWorkflow.severity = "critical"
     => \A j \in DOMAIN emRequests :
          emRequests[j].op \in ResponseOps
          => /\ AnsweredBefore(j, "emergency_stop", "trade-runner")
             /\ \A a \in DOMAIN NonCriticalAgents :
                  AnsweredBefore(j, "pause", NonCriticalAgents[a])
  /\ emWorkflow.severity # "critical"
     => \A j \in DOMAIN emRequests :
          emRequests[j].op \notin {"emergency_stop", "pause"}

\* a critical emergency whose risk assessment failed and which has raised
C29_Witness ==
  /\ emWorkflow.severity = "critical"
  /\ emPc = "raised"
  /\ emWorkflow.error = "assessEmergency"
  /\ AnsweredBefore(Len(emRequests), "emergency_stop", "trade-runner")
  /\ AnsweredBefore(Len(emRequests), "pause", "performance_analyst")

(***************************************************************************)
(* ReasoningEngine (ai-coo/src/core/reasoning-engine.ts, lines 19-188)     *)
(* Confidence is counted in hundredths.                                    *)
(***************************************************************************)
ActionTypes == {"default", "reduce", "hold"}
\* 0.5 and 0.8 are the confidences deductiveReasoning falls back to (lines
\* 74, 80); a probability can be anything from 0 to 1
Confidences == {0, 40, 50, 80, 100}
Decisions == [actionType : ActionTypes, confidence : Confidences,
              strategy : {"deductive", "probabilistic"}]

\* lines 159-168: the votes of an action type, the sum of the confidences of
\* the decisions that propose it
Votes(decisions, actionType) ==
  LET RECURSIVE Sum(_)
      Sum(i) == IF i = 0 THEN 0
                ELSE Sum(i - 1) + (IF decisions[i].actionType = actionType
                                   THEN decisions[i].confidence ELSE 0)
  IN Sum(Len(decisions))

\* lines 152-162: totalWeight and weightedConfidence
RECURSIVE TotalWeight(_)
TotalWeight(decisions) ==
  IF decisions = <<>> THEN 0
  ELSE Head(decisions).confidence + TotalWeight(Tail(decisions))
RECURSIVE WeightedConfidence(_)
WeightedConfidence(decisions) ==
  IF decisions = <<>> THEN 0
  ELSE Head(decisions).confidence * Head(decisions).confidence
       + WeightedConfidence(Tail(decisions))

\* lines 170-179: the Map is walked in the order the action types were first
\* voted for; a later type wins only with strictly more votes, and with no
\* votes above 0 bestAction stays ''
BestAction(decisions) ==
  IF \A i \in DOMAIN decisions : Votes(decisions, decisions[i].actionType) = 0
  THEN ""
  ELSE decisions[CHOOSE i \in DOMAIN decisions :
                   /\ \A j \in DOMAIN decisions :
                        Votes(decisions, decisions[j].actionType)
                          <= Votes(decisions, decisions[i].actionType)
                   /\ \A j \in 1..(i - 1) :
                        Votes(decisions, decisions[j].actionType)
                          < Votes(decisions, decisions[i].actionType)].actionType

\* lines 181-187: the first decision with the best action, or the first
\* decision; its confidence replaced by weightedConfidence / totalWeight,
\* kept here as numerator and denominator (0 / 0 is NaN)
combineDecisions(decisions) ==
  LET matching == {i \in DOMAIN decisions :
                     decisions[i].actionType = BestAction(decisions)}
      finalDecision == IF matching = {} THEN decisions[1]
                       ELSE decisions[CHOOSE i \in matching :
                                        \A j \in matching : i <= j]
  IN [actionType |-> finalDecision.actionType,
      strategy |-> finalDecision.strategy,
      weightedConfidence |-> WeightedConfidence(decisions),
      totalWeight |-> TotalWeight(decisions)]

InitRe == reLast = [decisions |-> <<>>]

\* lines 53-66: evaluate applies the deductive and the probabilistic
\* strategy and combines their decisions
Evaluate(deductive, probabilistic) ==
  /\ deductive.strategy = "deductive"
  /\ probabilistic.strategy = "probabilistic"
  /\ reLast' = [decisions |-> <<deductive, probabilistic>>,
                decision |-> combineDecisions(<<deductive, probabilistic>>)]
  /\ UNCHANGED notRe

NextRe == \E deductive \in Decisions, probabilistic \in Decisions :
            Evaluate(deductive, probabilistic)

\* the decisions of the last call that proposed the selected action type
Agreeing ==
  {i \in DOMAIN reLast.decisions :
     reLast.decisions[i].actionType = reLast.decision.actionType}

\* C33: combineDecisions selects the action kind with the largest sum of
\* confidences over the strategies that proposed it, and the confidence of
\* the combined decision is the average of the confidences of the
\* strategies that proposed the selected action kind.
C33_VoteAndAverage ==
  reLast.decisions # <<>>
  => /\ \A i \in DOMAIN reLast.decisions :
          Votes(reLast.decisions, reLast.decisions[i].actionType)
            <= Votes(reLast.decisions, reLast.decision.actionType)
     /\ reLast.decision.totalWeight # 0
     /\ reLast.decision.weightedConfidence * Cardinality(Agreeing)
          = reLast.decision.totalWeight
              * Votes(reLast.decisions, reLast.decision.actionType)

(***************************************************************************)
(* BaseAgent.think (ai-coo/src/agents/base-agent.ts, lines 145-173), as    *)
(* reached from receiveMessage (lines 298-323).  Confidence and importance *)
(* are counted in hundredths.                                              *)
(***************************************************************************)
\* message.priority: absent, or a number
MessagePriorities ==
  {[given |-> FALSE, value |-> 0]} \cup {[given |-> TRUE, value |-> n] : n \in 0..10}
\* response.confidence of the completion: absent, or a number from 0 to 1
ResponseConfidences ==
  {[given |-> FALSE, value |-> 0]}
    \cup {[given |-> TRUE, value |-> 10 * n] : n \in 0..10}

\* line 315: message.priority || 5 (0 is falsy)
TaskPriority(priority) ==
  IF priority.given /\ priority.value # 0 THEN priority.value ELSE 5

\* line 159: response.confidence || 0.5
ThoughtConfidence(confidence) ==
  IF confidence.given /\ confidence.value # 0 THEN confidence.value ELSE 50

\* line 168: importance: task.priority * thought.confidence
ThoughtImportance(priority, confidence) == priority * confidence

NoThought == [stored |-> FALSE]

InitTh == thinkLast = NoThought

\* lines 310-321, 100-111, 148-170: a task request is made a task, processTask
\* is entered and think stores the thought; store keeps the importance it is
\* given (reasoning-engine.ts lines 340-348)
ReceiveMessage_think(priority, confidence) ==
  /\ thinkLast' =
       [stored |-> TRUE, priority |-> priority, confidence |-> confidence,
        memory |-> NewMemory(1, ThoughtImportance(TaskPriority(priority),
                                                  ThoughtConfidence(confidence)))]
  /\ UNCHANGED notTh

NextTh == \E priority \in MessagePriorities, confidence \in ResponseConfidences :
            ReceiveMessage_think(priority, confidence)

\* C40: every MemoryItem written by store has importance within [0, 1]; in
\* particular the thought stored by think, whose importance is task.priority
\* times thought.confidence, stays within [0, 1] for every task priority that
\* receiveMessage assigns, the default priority 5 included.
C40_ImportanceWithinUnit ==
  thinkLast.stored
  => /\ thinkLast.memory.importance >= 0
     /\ thinkLast.memory.importance <= 100

\* a critical step of the running step list has a failed StepRecord
CriticalStepFailed(stepName) == isCriticalStep(stepName) /\ StepFailed(stepName)

\* C23: when a critical step fails, the error that executeWorkflow raises is
\* that step's error, whatever the outcome of the failure handling (failure
\* log, manual completion, operations alert) that runs before the raise.
C23_RaisesTheStepError ==
  \A n \in StepNames :
    (wfPc = "raised" /\ CriticalStepFailed(n)) => wfRaised = n

\* the steps recorded before position k that completed
CompletedBefore(k) ==
  {workflow.steps[i].name : i \in {i \in 1..(k - 1) :
                                    workflow.steps[i].status = "completed"}}

StepsInOrder ==
  /\ Len(workflow.steps) <= Len(DailySteps)
  /\ \A k \in DOMAIN workflow.steps :
       /\ workflow.steps[k].name = DailySteps[k].name
       /\ workflow.steps[k].status = "running" => k = Len(workflow.steps)
       \* the k-th request of the step loop is the one for step k
       /\ invoked[k].action = DailySteps[k].name
       /\ invoked[k].agent = DailySteps[k].agent
       /\ ~invoked[k].manual
       /\ invoked[k].previous_results = CompletedBefore(k)

InvokedWhenNoneRunning ==
  [][Len(invoked') > Len(invoked)
     => \A i \in DOMAIN workflow.steps :
          workflow.steps[i].status \in {"completed", "failed"}]_vars

Init == InitCtx /\ InitWf /\ InitReg /\ InitCb /\ InitAgent /\ InitMem /\ InitEh
        /\ InitEm /\ InitRe /\ InitTh

SpecCtxSeq == Init /\ [][NextCtxSeq]_vars
SpecCtx == Init /\ [][NextCtx]_vars

SpecWf == Init /\ [][NextWf]_vars

SpecReg == Init /\ [][NextReg]_vars

SpecCb == Init /\ [][NextCb]_vars

SpecAgent == Init /\ [][NextAgent]_vars
SpecStore == Init /\ [][NextStore]_vars
SpecMem == Init /\ [][NextMem]_vars
SpecEh == Init /\ [][NextEh]_vars
SpecEm == Init /\ [][NextEm]_vars
SpecRe == Init /\ [][NextRe]_vars
SpecTh == Init /\ [][NextTh]_vars

Next == NextCtx \/ NextWf \/ NextReg \/ NextCb \/ NextAgent \/ NextStore \/ NextMem \/ NextEh
        \/ NextEm \/ NextRe \/ NextTh

Spec == Init /\ [][Next]_vars
====
